---------------------------- MODULE Spec2Model ----------------------------
(***************************************************************************)
(* ChronoID generator (simulation/chrono_sim/src/generator.rs).            *)
(*                                                                         *)
(* The machine word and the bit fields are scaled down so that every       *)
(* field can be enumerated: u64 becomes a WORD_BITS-bit word and the       *)
(* 33/16/15 (second) and 53/5/5 (microsecond) layouts become 2/2/2 and     *)
(* 3/1/1.  All masks, shifts and wrap-arounds are derived from these       *)
(* widths exactly as the source derives them from its own.                 *)
(***************************************************************************)
EXTENDS Integers, Sequences, FiniteSets, TLC

VARIABLES
    persona,     \* Generator.persona
    last_ts,     \* Generator.last_ts   (AtomicU64)
    sequence,    \* Generator.sequence  (AtomicU64)
    mode,        \* Generator.mode
    config,      \* Generator.config
    shard,       \* the shard id / node id handed to the constructor
    pc,          \* where the pending generate() call stands
    wait_ts,     \* the tick a spinning generate() call waits on
    waited,      \* the tick whose sequence the pending call found exhausted
    out,         \* what the last operation returned
    rotated,     \* the widest rotation called by hand so far
    issued,      \* ids returned so far (history)
    dup,         \* whether the last id returned had been returned before
    burst,       \* the calls of the running fixed-tick burst, in order (history)
    calls,       \* how many calls the scenario driver has made
    c0,          \* the value the tenant counter was created with
    counter,     \* the caller-owned AtomicU64 of generate_chrono32y_mode_b
    year_off,    \* wall clock of the tenant family: years since the epoch
    t_pc,        \* per caller: position in generate_chrono32y_mode_b
    t_current,   \* per caller: the local `current`
    rets,        \* ids returned by the tenant callers, in completion order
    mix_args,    \* arguments of the mixer under test
    mix_res,     \* outputs of the mixer over its whole input domain
    r_pc,        \* per thread: position in an unserialized generate_at call
    r_loc,       \* per thread: the locals ts_units, last, seq of that call
    r_rets,      \* what the unserialized calls returned, in order (history)
    holder,      \* the thread holding the Mutex around the generator, 0 if none
    by,          \* the thread the last id was returned to
    fresh,       \* ids returned since the persona was last replaced (history)
    fresh_dup,   \* whether the last id returned was already in fresh
    twin,        \* node_b: a second generator built like the first, its last id
    drawn,       \* whether a random persona rotation has been triggered
    pack,        \* assemble under test: two generators, ticks, sequences, ids
    clock        \* a wall clock that never moves backwards (microseconds)

gen_vars == <<persona, last_ts, sequence, mode, config, shard>>
call_vars == <<pc, wait_ts, waited>>
hist_vars == <<out, rotated>>
track_vars == <<issued, dup, burst, calls>>
tenant_vars == <<c0, counter, year_off, t_pc, t_current, rets>>
mix_vars == <<mix_args, mix_res>>
race_vars == <<r_pc, r_loc, r_rets>>
lock_vars == <<holder, by, fresh, fresh_dup>>
extra_vars == <<twin, drawn, pack, clock>>
other_vars == <<race_vars, lock_vars, extra_vars>>
vars == <<gen_vars, call_vars, hist_vars, track_vars, tenant_vars, mix_vars, other_vars>>

(***************************************************************************)
(* Word arithmetic                                                         *)
(***************************************************************************)

\* u64, scaled: the width of the machine word.
WORD_BITS == 6

Pow2(n) == 2 ^ n

\* x << n on the machine word (bits shifted out are lost).
Shl(x, n) == (x * Pow2(n)) % Pow2(WORD_BITS)

\* x >> n
Shr(x, n) == x \div Pow2(n)

RECURSIVE BitAnd(_, _)
BitAnd(a, b) ==
    IF a = 0 \/ b = 0 THEN 0
    ELSE (IF a % 2 = 1 /\ b % 2 = 1 THEN 1 ELSE 0) + 2 * BitAnd(a \div 2, b \div 2)

RECURSIVE BitOr(_, _)
BitOr(a, b) ==
    IF a = 0 THEN b
    ELSE IF b = 0 THEN a
    ELSE (IF a % 2 = 1 \/ b % 2 = 1 THEN 1 ELSE 0) + 2 * BitOr(a \div 2, b \div 2)

RECURSIVE BitXor(_, _)
BitXor(a, b) ==
    IF a = 0 THEN b
    ELSE IF b = 0 THEN a
    ELSE ((a + b) % 2) + 2 * BitXor(a \div 2, b \div 2)

\* u64::wrapping_mul, u64::wrapping_add, u64::saturating_sub
WrappingMul(a, b) == (a * b) % Pow2(WORD_BITS)
WrappingAdd(a, b) == (a + b) % Pow2(WORD_BITS)
SaturatingSub(a, b) == IF a > b THEN a - b ELSE 0

\* (1 << bits) - 1
MaskOf(bits) == Pow2(bits) - 1

(***************************************************************************)
(* Multiplier table and mixer                                              *)
(***************************************************************************)

\* The length of the multiplier table (128 in the source, scaled).
TABLE_LEN == 4

\* crate::weyl::WEYL_MULTIPLIERS: odd word-sized constants stepping by the
\* golden ratio (2^WORD_BITS / phi = 39), the low bit forced to 1.
WEYL_MULTIPLIERS == <<39, 15, 53, 29>>

\* The multiplier mix() derives from a table seed for a field of `bits` bits.
MixMultNoOdd(bits, p_idx) ==
    LET seed == WEYL_MULTIPLIERS[(p_idx % TABLE_LEN) + 1]
    IN  IF bits < WORD_BITS THEN Shr(seed, WORD_BITS - bits) ELSE seed

MixMult(bits, p_idx) ==
    LET seed == WEYL_MULTIPLIERS[(p_idx % TABLE_LEN) + 1]
    IN  IF bits < WORD_BITS THEN BitOr(Shr(seed, WORD_BITS - bits), 1) ELSE seed

\* Generator::mix
mix(val, bits, p_idx, salt) ==
    LET mask == MaskOf(bits)
        mult == MixMult(bits, p_idx)
    IN  BitAnd(BitXor(WrappingMul(val, mult), salt), mask)

\* The table length the documented SQL snippet reduces the index by (64 in
\* bin/proof_sql_parity.rs, against 128 in Generator::mix), scaled alike.
SQL_TABLE_LEN == 2

\* uchrono_mix_sql_logic: the SQL snippet's mixer, transcribed
uchrono_mix_sql_logic(v_val, v_bits, v_p_idx, v_salt) ==
    LET v_mask == MaskOf(v_bits)
        seed == WEYL_MULTIPLIERS[(v_p_idx % SQL_TABLE_LEN) + 1]
        v_mult == BitOr(Shr(seed, WORD_BITS - v_bits), 1)
    IN  BitAnd(BitXor(WrappingMul(v_val, v_mult), v_salt), v_mask)

(***************************************************************************)
(* Bit layout, Config, Persona                                             *)
(***************************************************************************)

\* TIME_BITS / NODE_BITS / SEQ_BITS of the second-precision layout
\* (33 / 16 / 15 in the source, scaled: they still fill the whole word).
TIME_BITS == 2
NODE_BITS == 2
SEQ_BITS == 2

NODE_MASK == MaskOf(NODE_BITS)
SEQ_MASK == MaskOf(SEQ_BITS)

\* 2020-01-01 in microseconds since the Unix epoch (scaled).
EPOCH_US == 1

\* Config::new: the layout and tick length of a precision.  The microsecond
\* layout (53 / 5 / 5, one spare bit) has a wider time field, narrower node
\* and sequence fields and a shorter tick.
Config_new(precision) ==
    IF precision = "Second"
    THEN [time_bits |-> 2, node_bits |-> 2, seq_bits |-> 2, unit_us |-> 2]
    ELSE [time_bits |-> 3, node_bits |-> 1, seq_bits |-> 1, unit_us |-> 1]

Modes == {"A", "B", "C"}

\* How many outcomes of the random pool (rng.gen::<u128>()) the model draws
\* from, and the stride between them.
MaxDraw == 3
POOL_STRIDE == 162013

\* The random pool, scaled: node_id, node_salt, node_idx, seq_offset, one
\* unused bit, seq_idx and seq_salt take 2 + WORD_BITS + 2 + 2 + 1 + 2 + 3 bits.
POOL_BITS == 18

\* The outcomes of rng.gen::<u128>() the model draws from.
RandPools == {(k * POOL_STRIDE) % Pow2(POOL_BITS) : k \in 0 .. MaxDraw}

\* Persona::new_random, from the pool drawn: node_id and seq_offset are cut
\* with the global NODE_MASK and SEQ_MASK, the salts are as wide as a word.
new_random(pool) ==
    [node_id    |-> BitAnd(pool, NODE_MASK),
     node_salt  |-> Shr(pool, 2) % Pow2(WORD_BITS),
     node_idx   |-> Shr(pool, 8) % TABLE_LEN,
     seq_offset |-> BitAnd(Shr(pool, 10), SEQ_MASK),
     seq_idx    |-> Shr(pool, 13) % TABLE_LEN,
     seq_salt   |-> Shr(pool, 15) % Pow2(WORD_BITS)]

Persona_new_random == {new_random(pool) : pool \in RandPools}

\* rotate_params_only that draws node_id along with the other fields.
rotate_params_and_node(p, cfg, pool) ==
    [new_random(pool) EXCEPT !.seq_offset = BitAnd(Shr(pool, 12), MaskOf(cfg.seq_bits))]

\* The persona after rotate_params_only, from the pool drawn: seq_salt
\* overlaps seq_idx and seq_offset in the pool, node_id is not written.
rotate_params_only(p, cfg, pool) ==
    [p EXCEPT !.node_salt = pool % Pow2(WORD_BITS),
              !.node_idx = Shr(pool, 6) % TABLE_LEN,
              !.seq_salt = Shr(pool, 8) % Pow2(WORD_BITS),
              !.seq_idx = Shr(pool, 10) % TABLE_LEN,
              !.seq_offset = BitAnd(Shr(pool, 12), MaskOf(cfg.seq_bits))]

\* The generator as one value.
Gen == [persona |-> persona, last_ts |-> last_ts, sequence |-> sequence,
        mode |-> mode, config |-> config]

(***************************************************************************)
(* Assembly                                                                *)
(***************************************************************************)

\* The node field of assemble when the node id is mixed in every mode.
NodeFieldAlwaysMixed(g) ==
    mix(g.persona.node_id, g.config.node_bits, g.persona.node_idx, g.persona.node_salt)

\* The node field of assemble: raw in Mode C, mixed in Modes A and B.
NodeField(g) ==
    IF g.mode = "C"
    THEN BitAnd(g.persona.node_id, MaskOf(g.config.node_bits))
    ELSE mix(g.persona.node_id, g.config.node_bits, g.persona.node_idx,
             g.persona.node_salt)

\* The sequence field mixed from seq_offset alone, the sequence left out.
SeqFieldOffsetOnly(g, seq) ==
    mix(g.persona.seq_offset, g.config.seq_bits, g.persona.seq_idx, g.persona.seq_salt)

\* The sequence field of assemble: the sequence plus seq_offset, mixed.
SeqField(g, seq) ==
    mix(WrappingAdd(seq, g.persona.seq_offset), g.config.seq_bits,
        g.persona.seq_idx, g.persona.seq_salt)

\* assemble with the tick packed below the node field: [node | time | seq].
assemble_node_first(g, ts, seq) ==
    LET node_mask == MaskOf(g.config.node_bits)
        seq_mask == MaskOf(g.config.seq_bits)
        time_mask == MaskOf(g.config.time_bits)
        id0 == Shl(BitAnd(NodeField(g), node_mask), g.config.time_bits + g.config.seq_bits)
        id1 == BitOr(id0, Shl(BitAnd(ts, time_mask), g.config.seq_bits))
    IN  BitOr(id1, BitAnd(SeqField(g, seq), seq_mask))

\* assemble with the tick shifted by node_bits only: the tick overlaps the
\* node field.
assemble_short_shift(g, ts, seq) ==
    LET node_mask == MaskOf(g.config.node_bits)
        seq_mask == MaskOf(g.config.seq_bits)
        time_mask == MaskOf(g.config.time_bits)
        id0 == Shl(BitAnd(ts, time_mask), g.config.node_bits)
        id1 == BitOr(id0, Shl(BitAnd(NodeField(g), node_mask), g.config.seq_bits))
    IN  BitOr(id1, BitAnd(SeqField(g, seq), seq_mask))

\* Generator::assemble
assemble(g, ts, seq) ==
    LET node_mask == MaskOf(g.config.node_bits)
        seq_mask == MaskOf(g.config.seq_bits)
        time_mask == MaskOf(g.config.time_bits)
        mixed_node == NodeField(g)
        mixed_seq == SeqField(g, seq)
        id0 == Shl(BitAnd(ts, time_mask), g.config.node_bits + g.config.seq_bits)
        id1 == BitOr(id0, Shl(BitAnd(mixed_node, node_mask), g.config.seq_bits))
    IN  BitOr(id1, BitAnd(mixed_seq, seq_mask))

\* Decoding an id by shift and mask.
TimeOf(cfg, id) == Shr(id, cfg.node_bits + cfg.seq_bits)
NodeOf(cfg, id) == BitAnd(Shr(id, cfg.seq_bits), MaskOf(cfg.node_bits))
SeqOf(cfg, id) == BitAnd(id, MaskOf(cfg.seq_bits))

(***************************************************************************)
(* The tick / sequence state machine                                       *)
(***************************************************************************)

\* The low 16 bits of the Weyl magic 3535253579 (0xD2B7B04B): it is only
\* ever used under a node mask of at most 16 bits.
WEYL_MAGIC == 45131

\* The Mode B step with `^ 1` written for `| 1`: an even step.
WeylStepXorOne(cfg) == BitXor(BitAnd(WEYL_MAGIC, MaskOf(cfg.node_bits)), 1)

\* step = (magic & mask) | 1
WeylStep(cfg) == BitOr(BitAnd(WEYL_MAGIC, MaskOf(cfg.node_bits)), 1)

\* The handler with the Mode B arm left empty.
HandlerNoStep(g, rnd) == IF g.mode = "A" THEN rnd ELSE g.persona

\* A handler that draws a new persona in every mode.
HandlerAlwaysDraws(g, rnd) == rnd

\* A handler whose Mode C arm takes the Weyl step of Mode B.
HandlerModeCSteps(g, rnd) ==
    IF g.mode = "A" THEN rnd
    ELSE [g.persona EXCEPT !.node_id =
             BitAnd(g.persona.node_id + WeylStep(g.config), MaskOf(g.config.node_bits))]

\* The overflow / rollback handler of generate_at: Mode A draws a new persona
\* (rnd), Mode B advances node_id by one Weyl step, Mode C does nothing.
Handler(g, rnd) ==
    CASE g.mode = "A" -> rnd
      [] g.mode = "B" ->
            [g.persona EXCEPT !.node_id =
                BitAnd(g.persona.node_id + WeylStep(g.config), MaskOf(g.config.node_bits))]
      [] OTHER -> g.persona

\* seq + 1 without the mask
NextSeqUnmasked(g) == g.sequence + 1

\* (seq + 1) & seq_mask
NextSeq(g) == BitAnd(g.sequence + 1, MaskOf(g.config.seq_bits))

\* The sequence a rolled-back generate_at call stores when it forgets to step.
RollbackSeqStale(g) == g.sequence

\* The sequence a rolled-back call stores.
RollbackSeq(g) == NextSeq(g)

\* What a call hands back: the generator after it, the id assembled from the
\* requested tick and the stored sequence, the branch taken, and whether the
\* call spins instead of returning the id.
Returned(g1, ts_units, case, blocked) ==
    [gen |-> g1, id |-> assemble(g1, ts_units, g1.sequence), case |-> case,
     blocked |-> blocked]

\* generate_at whose advance branch keeps the stored sequence going instead
\* of resetting it.
generate_at_no_reset(g, ts_units, rnd) ==
    IF ts_units > g.last_ts
    THEN Returned([g EXCEPT !.last_ts = ts_units, !.sequence = NextSeq(g)], ts_units,
                  "advance", FALSE)
    ELSE IF ts_units = g.last_ts
    THEN IF NextSeq(g) = 0
         THEN Returned([g EXCEPT !.sequence = NextSeq(g), !.persona = Handler(g, rnd)],
                       ts_units, "overflow", FALSE)
         ELSE Returned([g EXCEPT !.sequence = NextSeq(g)], ts_units, "same", FALSE)
    ELSE Returned([g EXCEPT !.persona = Handler(g, rnd), !.sequence = RollbackSeq(g)],
                  ts_units, "rollback", FALSE)

\* generate_at that assembles the id of an overflowing call before its
\* handler ran.
generate_at_stale_id(g, ts_units, rnd) ==
    IF ts_units = g.last_ts /\ NextSeq(g) = 0
    THEN [gen |-> [g EXCEPT !.sequence = NextSeq(g), !.persona = Handler(g, rnd)],
          id |-> assemble(g, ts_units, NextSeq(g)), case |-> "overflow",
          blocked |-> FALSE]
    ELSE IF ts_units > g.last_ts
    THEN Returned([g EXCEPT !.last_ts = ts_units, !.sequence = 0], ts_units,
                  "advance", FALSE)
    ELSE IF ts_units = g.last_ts
    THEN Returned([g EXCEPT !.sequence = NextSeq(g)], ts_units, "same", FALSE)
    ELSE Returned([g EXCEPT !.persona = Handler(g, rnd), !.sequence = RollbackSeq(g)],
                  ts_units, "rollback", FALSE)

\* generate_at that stores the rolled-back tick as last_ts.
generate_at_rollback_stores(g, ts_units, rnd) ==
    IF ts_units > g.last_ts
    THEN Returned([g EXCEPT !.last_ts = ts_units, !.sequence = 0], ts_units,
                  "advance", FALSE)
    ELSE IF ts_units = g.last_ts
    THEN IF NextSeq(g) = 0
         THEN Returned([g EXCEPT !.sequence = NextSeq(g), !.persona = Handler(g, rnd)],
                       ts_units, "overflow", FALSE)
         ELSE Returned([g EXCEPT !.sequence = NextSeq(g)], ts_units, "same", FALSE)
    ELSE Returned([g EXCEPT !.persona = Handler(g, rnd), !.sequence = RollbackSeq(g),
                            !.last_ts = ts_units],
                  ts_units, "rollback", FALSE)

\* Generator::generate_at(ts_units).  rnd is the persona a rotation would draw.
generate_at(g, ts_units, rnd) ==
    IF ts_units > g.last_ts
    THEN Returned([g EXCEPT !.last_ts = ts_units, !.sequence = 0], ts_units,
                  "advance", FALSE)
    ELSE IF ts_units = g.last_ts
    THEN IF NextSeq(g) = 0
         THEN Returned([g EXCEPT !.sequence = NextSeq(g), !.persona = Handler(g, rnd)],
                       ts_units, "overflow", FALSE)
         ELSE Returned([g EXCEPT !.sequence = NextSeq(g)], ts_units, "same", FALSE)
    ELSE Returned([g EXCEPT !.persona = Handler(g, rnd), !.sequence = RollbackSeq(g)],
                  ts_units, "rollback", FALSE)

\* The tick generate() derives from a reading of the wall clock.
TsUnits(cfg, reading) == SaturatingSub(reading, EPOCH_US) \div cfg.unit_us

\* A pass of generate in which Mode B, and not Mode C, spins on overflow.
generate_pass_b_spins(g, ts_units, rnd) ==
    IF ts_units = g.last_ts /\ NextSeq(g) = 0 /\ g.mode = "B"
    THEN Returned([g EXCEPT !.sequence = NextSeq(g)], ts_units, "overflow", TRUE)
    ELSE generate_at(g, ts_units, rnd)

\* A pass of generate that never waits: Mode C returns an id for the tick it
\* read, as generate_at does.
generate_pass_no_wait(g, ts_units, rnd) == generate_at(g, ts_units, rnd)

\* One pass through the body of Generator::generate at tick ts_units: as
\* generate_at, except that Mode C spins (blocked) on overflow, after the
\* wrapped sequence was stored, and on rollback, before anything is stored.
generate_pass(g, ts_units, rnd) ==
    IF ts_units > g.last_ts
    THEN Returned([g EXCEPT !.last_ts = ts_units, !.sequence = 0], ts_units,
                  "advance", FALSE)
    ELSE IF ts_units = g.last_ts
    THEN IF NextSeq(g) = 0
         THEN IF g.mode = "C"
              THEN Returned([g EXCEPT !.sequence = NextSeq(g)], ts_units, "overflow", TRUE)
              ELSE Returned([g EXCEPT !.sequence = NextSeq(g),
                                      !.persona = Handler(g, rnd)],
                            ts_units, "overflow", FALSE)
         ELSE Returned([g EXCEPT !.sequence = NextSeq(g)], ts_units, "same", FALSE)
    ELSE IF g.mode = "C"
         THEN Returned(g, ts_units, "rollback", TRUE)
         ELSE Returned([g EXCEPT !.persona = Handler(g, rnd), !.sequence = NextSeq(g)],
                       ts_units, "rollback", FALSE)

\* generate() with the sequence.store of the same-tick branch left out
generate_seq_not_stored(g, reading, rnd) ==
    LET r == generate_pass(g, TsUnits(g.config, reading), rnd)
    IN  IF r.case = "same" THEN [r EXCEPT !.gen.sequence = g.sequence] ELSE r

\* Generator::generate with the wall clock reading `reading`.
generate(g, reading, rnd) == generate_pass(g, TsUnits(g.config, reading), rnd)

(***************************************************************************)
(* Operations of the generator                                             *)
(***************************************************************************)

\* Largest tick handed to generate_at, largest reading of the wall clock
\* (microseconds), largest shard id and largest starting sequence handed
\* to a constructor.
MaxTick == 2
MaxNowUs == 4
MaxShard == 4
MaxStartSeq == 4

NoTick == -1

NoOut == [kind |-> "none", op |-> "none", id |-> 0, ts |-> 0, case |-> "none",
          ovf |-> NoTick]

IdOut(op, id, ts, case, ovf) ==
    [kind |-> "id", op |-> op, id |-> id, ts |-> ts, case |-> case, ovf |-> ovf]

\* The personas a call can draw: a draw happens only when Mode A's handler runs.
Draws(g, ts_units) ==
    IF g.mode = "A" /\ (ts_units < g.last_ts \/ (ts_units = g.last_ts /\ NextSeq(g) = 0))
    THEN Persona_new_random
    ELSE {g.persona}

\* gen.generate_at(t)
GenerateAtCall(t) ==
    /\ pc = "idle"
    /\ \E rnd \in Draws(Gen, t) :
          \E r \in {generate_at(Gen, t, rnd)} :
              /\ persona' = r.gen.persona
              /\ last_ts' = r.gen.last_ts
              /\ sequence' = r.gen.sequence
              /\ out' = IdOut("generate_at", r.id, t, r.case, NoTick)
    /\ UNCHANGED <<mode, config, shard, call_vars, rotated, tenant_vars, mix_vars>>

\* gen.generate(): one pass through the body, entered by a call (pc = "idle")
\* or by the `return self.generate()` that follows a spin (pc = "retry").
\* The wall clock is read anew (reading) on every pass.
GenerateCall(reading) ==
    /\ pc \in {"idle", "retry"}
    /\ \E rnd \in Draws(Gen, TsUnits(config, reading)) :
          \E r \in {generate(Gen, reading, rnd)},
             ovf \in {IF pc = "idle" THEN NoTick ELSE waited} :
              /\ persona' = r.gen.persona
              /\ last_ts' = r.gen.last_ts
              /\ sequence' = r.gen.sequence
              /\ IF r.blocked
                 THEN /\ pc' = IF r.case = "overflow" THEN "spin_overflow"
                                ELSE "spin_rollback"
                      /\ wait_ts' = last_ts
                      /\ waited' = IF r.case = "overflow" THEN last_ts ELSE ovf
                      /\ out' = NoOut
                 ELSE /\ pc' = "idle"
                      /\ wait_ts' = NoTick
                      /\ waited' = NoTick
                      /\ out' = IdOut("generate", r.id, TsUnits(config, reading),
                                      r.case, ovf)
    /\ UNCHANGED <<mode, config, shard, rotated, tenant_vars, mix_vars>>

\* The overflow spin with `>=` written for `>`: it ends at the exhausted tick.
SpinOverflowAtTick(reading) ==
    /\ pc = "spin_overflow"
    /\ pc' = IF TsUnits(config, reading) >= wait_ts THEN "retry" ELSE pc
    /\ UNCHANGED <<gen_vars, wait_ts, waited, hist_vars, track_vars, tenant_vars, mix_vars, other_vars>>

\* One iteration of the overflow spin: leave when current_units > ts_start.
SpinOverflow(reading) ==
    /\ pc = "spin_overflow"
    /\ pc' = IF TsUnits(config, reading) > wait_ts THEN "retry" ELSE pc
    /\ UNCHANGED <<gen_vars, wait_ts, waited, hist_vars, track_vars, tenant_vars, mix_vars, other_vars>>

\* The rollback spin without its test: it is left after one iteration.
SpinRollbackNoWait(reading) ==
    /\ pc = "spin_rollback"
    /\ pc' = "retry"
    /\ UNCHANGED <<gen_vars, wait_ts, waited, hist_vars, track_vars, tenant_vars, mix_vars, other_vars>>

\* One iteration of the rollback spin: leave when current_units >= last.
SpinRollback(reading) ==
    /\ pc = "spin_rollback"
    /\ pc' = IF TsUnits(config, reading) >= wait_ts THEN "retry" ELSE pc
    /\ UNCHANGED <<gen_vars, wait_ts, waited, hist_vars, track_vars, tenant_vars, mix_vars, other_vars>>

\* gen.rotate_persona()
RotatePersona ==
    /\ pc = "idle"
    /\ persona' \in Persona_new_random
    /\ rotated' = "persona"
    /\ out' = NoOut
    /\ UNCHANGED <<last_ts, sequence, mode, config, shard, call_vars, track_vars,
                   tenant_vars, mix_vars, other_vars>>

\* gen.rotate_params_only()
RotateParamsOnly ==
    /\ pc = "idle"
    /\ \E pool \in RandPools : persona' = rotate_params_only(persona, config, pool)
    /\ rotated' = IF rotated = "persona" THEN rotated ELSE "params"
    /\ out' = NoOut
    /\ UNCHANGED <<last_ts, sequence, mode, config, shard, call_vars, track_vars,
                   tenant_vars, mix_vars, other_vars>>

\* The state that is not part of the generator, at rest.
TenantIdle ==
    /\ c0 = 0 /\ counter = 0 /\ year_off = 0
    /\ t_pc = <<>> /\ t_current = <<>> /\ rets = <<>>

NoArgs == [bits |-> 0, p_idx |-> 0, salt |-> 0]

MixIdle == mix_args = NoArgs /\ mix_res = <<>>

\* no thread is inside an unserialized call
RaceIdle == r_pc = <<>> /\ r_loc = <<>> /\ r_rets = <<>>

\* no Mutex in use
LockIdle == holder = 0 /\ by = 0 /\ fresh = {} /\ fresh_dup = FALSE

ExtraIdle == twin = <<>> /\ drawn = FALSE /\ pack = <<>> /\ clock = 0
OtherIdle == RaceIdle /\ LockIdle /\ ExtraIdle

HistInit ==
    /\ out = NoOut
    /\ rotated = "none"
    /\ issued = {}
    /\ dup = FALSE
    /\ burst = <<>>
    /\ calls = 0

CallInit == pc = "idle" /\ wait_ts = NoTick /\ waited = NoTick

\* Generator::new / new_with_persona (Mode A, any starting sequence),
\* new_mode_b, new_mode_c and new_mode_c_us (the shard id replaces node_id).
GenInit ==
    /\ mode \in Modes
    /\ config \in IF mode = "C" THEN {Config_new("Second"), Config_new("Microsecond")}
                  ELSE {Config_new("Second")}
    /\ \E p \in Persona_new_random :
          /\ shard \in IF mode = "C" THEN 0 .. MaxShard ELSE {p.node_id}
          /\ persona = [p EXCEPT !.node_id = shard]
    /\ last_ts = 0
    /\ sequence \in IF mode = "A" THEN 0 .. MaxStartSeq ELSE {0}

Init == GenInit /\ CallInit /\ HistInit /\ TenantIdle /\ MixIdle /\ OtherIdle

GenerateAt == \E t \in 0 .. MaxTick : GenerateAtCall(t) /\ UNCHANGED <<track_vars, other_vars>>

Generate == \E n \in 0 .. MaxNowUs : GenerateCall(n) /\ UNCHANGED <<track_vars, other_vars>>

Spin == \E n \in 0 .. MaxNowUs : SpinOverflow(n) \/ SpinRollback(n)

Next == GenerateAt \/ Generate \/ Spin \/ RotatePersona \/ RotateParamsOnly

Spec == Init /\ [][Next]_vars

(***************************************************************************)
(* Mixer under test: the outputs of mix over the whole domain of a field   *)
(***************************************************************************)

\* Largest multiplier index and salt handed to the mixer under test.
MaxMixIdx == 5
MaxMixSalt == 9

MixArgs == [bits : 1 .. (WORD_BITS - 1), p_idx : 0 .. MaxMixIdx, salt : 0 .. MaxMixSalt]

\* The mixer is applied to every value of the field.
MixAll ==
    /\ mix_args \in MixArgs
    /\ mix_res = <<>>
    /\ mix_res' = [v \in 0 .. MaskOf(mix_args.bits) |->
                      mix(v, mix_args.bits, mix_args.p_idx, mix_args.salt)]
    /\ UNCHANGED <<mix_args, gen_vars, call_vars, hist_vars, track_vars, tenant_vars, other_vars>>

\* The next arguments are chosen.
MixChoose ==
    /\ mix_res # <<>>
    /\ mix_args' \in MixArgs
    /\ mix_res' = <<>>
    /\ UNCHANGED <<gen_vars, call_vars, hist_vars, track_vars, tenant_vars, other_vars>>

MixInit ==
    /\ mix_args \in MixArgs
    /\ mix_res = <<>>
    /\ persona = [node_id |-> 0, node_salt |-> 0, node_idx |-> 0, seq_offset |-> 0,
                  seq_idx |-> 0, seq_salt |-> 0]
    /\ last_ts = 0 /\ sequence = 0 /\ mode = "A" /\ config = Config_new("Second")
    /\ shard = 0
    /\ CallInit /\ HistInit /\ TenantIdle /\ OtherIdle

MixNext == MixAll \/ MixChoose

SpecMix == MixInit /\ [][MixNext]_vars

(***************************************************************************)
(* Returned ids on record: what a caller collecting ids in a set observes   *)
(* (the HashSet of bin/proof_rollback.rs and bin/proof_mode_b.rs)           *)
(***************************************************************************)

\* ids.insert(id): the id joins the set; dup tells that it was already there
Track ==
    /\ issued' = IF out'.kind = "id" THEN issued \cup {out'.id} ELSE issued
    /\ dup' = (out'.kind = "id" /\ out'.id \in issued)

(***************************************************************************)
(* Mode C driven by the wall clock alone: generate() and its spin loops,    *)
(* no rotation, every clock reading arbitrary                               *)
(***************************************************************************)

ModeCInit == Init /\ mode = "C"

ModeCGenerate ==
    \E n \in 0 .. MaxNowUs : GenerateCall(n) /\ Track /\ UNCHANGED <<burst, calls, other_vars>>

ModeCNext == ModeCGenerate \/ Spin

SpecModeC == ModeCInit /\ [][ModeCNext]_vars

(***************************************************************************)
(* Clock rollback scenario of bin/proof_rollback.rs: a run of calls at one  *)
(* tick, one call at the next tick, then a run of calls at the first tick   *)
(***************************************************************************)

\* the ticks 100 and 101 of the scenario, scaled into the time field
LOW_TICK == 1
HIGH_TICK == 2

\* lengths of the first and the last run (10 and 1 + 1000 in the scenario)
RollbackBefore == 2
RollbackAfter == 5

\* Phase 1: for _ in 0..10 { gen.generate_at(100) }
IngestAtLow ==
    /\ calls < RollbackBefore
    /\ GenerateAtCall(LOW_TICK) /\ Track
    /\ calls' = calls + 1 /\ UNCHANGED <<burst, other_vars>>

\* Phase 2: gen.generate_at(101)
AdvanceToHigh ==
    /\ calls = RollbackBefore
    /\ GenerateAtCall(HIGH_TICK) /\ Track
    /\ calls' = calls + 1 /\ UNCHANGED <<burst, other_vars>>

\* Phases 3 and 4: gen.generate_at(100) after the clock went back
RollbackToLow ==
    /\ calls > RollbackBefore /\ calls <= RollbackBefore + RollbackAfter
    /\ GenerateAtCall(LOW_TICK) /\ Track
    /\ calls' = calls + 1 /\ UNCHANGED <<burst, other_vars>>

RollbackNext == IngestAtLow \/ AdvanceToHigh \/ RollbackToLow

SpecRollback == Init /\ [][RollbackNext]_vars

(***************************************************************************)
(* Mode B burst of bin/proof_mode_b.rs (verify_burst_capacity): a run of    *)
(* generate_at calls at one fixed tick, after some earlier calls that may   *)
(* have left last_ts below, at or above that tick                           *)
(***************************************************************************)

\* calls made before the burst starts
MaxWarm == 2
\* calls of a burst beyond one full (node, sequence) period
BurstExtra == 1

BurstLen == Pow2(NODE_BITS + SEQ_BITS) + BurstExtra

BurstInit == Init /\ mode = "B"

WarmUp ==
    /\ burst = <<>> /\ calls < MaxWarm
    /\ \E t \in 0 .. MaxTick : GenerateAtCall(t)
    /\ calls' = calls + 1
    /\ UNCHANGED <<issued, dup, burst, other_vars>>

\* for i in 0..target_ids { let id = gen.generate_at(fixed_ts); ... }
BurstCall ==
    /\ Len(burst) < BurstLen
    /\ \E t \in 0 .. MaxTick :
        /\ IF burst = <<>> THEN TRUE ELSE burst[1].ts = t
        /\ GenerateAtCall(t)
        /\ burst' = Append(burst, [id |-> out'.id, ts |-> t, case |-> out'.case,
                                   before |-> persona.node_id,
                                   after |-> persona'.node_id])
    /\ UNCHANGED <<issued, dup, calls, other_vars>>

BurstNext == WarmUp \/ BurstCall

SpecBurst == BurstInit /\ [][BurstNext]_vars

(***************************************************************************)
(* 32-bit tenant id, Weyl counter variant (generate_chrono32y_mode_b).      *)
(* The u32 id is scaled to YEAR_BITS + SUFFIX_BITS bits (8 + 24 in the      *)
(* source); the shared AtomicU64 counter keeps its own, wider word.         *)
(***************************************************************************)

\* width of the suffix (24) and of the year field (8), scaled
SUFFIX_BITS == 2
YEAR_BITS == 1

\* const MASK: u64 = 0xFFFFFF
MASK == MaskOf(SUFFIX_BITS)
\* year_offset & 0xFF
YEAR_MASK == MaskOf(YEAR_BITS)

\* 0x9E377B
GOLDEN == 10368891
\* const STEP: u64 = 0x9E377B | 1
STEP == BitOr(GOLDEN, 1)

\* number of threads sharing the counter
NumCallers == 2
\* largest initial counter value, largest year offset the clock reaches
MaxCounter0 == 4
MaxYearOff == 1
\* completed calls beyond one full period
TenantExtra == 2

Callers == 1 .. NumCallers
TenantCalls == Pow2(SUFFIX_BITS) + TenantExtra

\* the stepped counter with the low bit of the step cleared: an even step
NextCounterEvenStep(current) == BitAnd(current + (STEP - 1), MASK)

\* the stepped counter without the mask
NextCounterUnmasked(current) == current + STEP

\* let next = (current + STEP) & MASK
NextCounter(current) == BitAnd(current + STEP, MASK)

\* a plain store in place of the exchange: it never fails
StoreAlways(actual, expected) == TRUE

\* compare_exchange_weak succeeds only if the counter still holds `current`
CasOk(actual, expected) == actual = expected

\* (year << 24) | (current as u32)
TenantId(year, current) ==
    BitOr((year * Pow2(SUFFIX_BITS)) % Pow2(YEAR_BITS + SUFFIX_BITS),
          current % Pow2(YEAR_BITS + SUFFIX_BITS))

\* id & 0xFFFFFF (bin/proof_chrono32y_mode_b.rs)
SuffixOf(id) == BitAnd(id, MASK)

NoLocal == [current |-> 0, year |-> 0]

\* reads the clock and loads the counter: let mut current = sequence.load(..)
TLoad(c) ==
    /\ t_pc[c] = "idle"
    /\ Len(rets) + Cardinality({d \in Callers : t_pc[d] = "loop"}) < TenantCalls
    /\ t_pc' = [t_pc EXCEPT ![c] = "loop"]
    /\ t_current' = [t_current EXCEPT
           ![c] = [current |-> counter, year |-> BitAnd(year_off, YEAR_MASK)]]
    /\ UNCHANGED <<c0, counter, year_off, rets>>
    /\ UNCHANGED <<gen_vars, call_vars, hist_vars, track_vars, mix_vars, other_vars>>

\* Ok(_) => break, then the return of (year << 24) | current
TCasOk(c) ==
    /\ t_pc[c] = "loop"
    /\ CasOk(counter, t_current[c].current)
    /\ counter' = NextCounter(t_current[c].current)
    /\ rets' = Append(rets, TenantId(t_current[c].year, t_current[c].current))
    /\ t_pc' = [t_pc EXCEPT ![c] = "idle"]
    /\ t_current' = [t_current EXCEPT ![c] = NoLocal]
    /\ UNCHANGED <<c0, year_off>>
    /\ UNCHANGED <<gen_vars, call_vars, hist_vars, track_vars, mix_vars, other_vars>>

\* Err(_) => {}: a failed exchange that keeps the stale value
TCasFailNoReload(c) ==
    /\ t_pc[c] = "loop"
    /\ ~CasOk(counter, t_current[c].current)
    /\ UNCHANGED <<c0, counter, year_off, t_pc, t_current, rets>>
    /\ UNCHANGED <<gen_vars, call_vars, hist_vars, track_vars, mix_vars, other_vars>>

\* Err(x) => current = x, the counter having moved
TCasFail(c) ==
    /\ t_pc[c] = "loop"
    /\ ~CasOk(counter, t_current[c].current)
    /\ t_current' = [t_current EXCEPT ![c].current = counter]
    /\ UNCHANGED <<c0, counter, year_off, t_pc, rets>>
    /\ UNCHANGED <<gen_vars, call_vars, hist_vars, track_vars, mix_vars, other_vars>>

\* Err(x) => current = x on a spurious failure of the weak exchange: x is
\* the value the caller already holds
TCasSpurious(c) ==
    /\ t_pc[c] = "loop"
    /\ counter = t_current[c].current
    /\ t_current' = [t_current EXCEPT ![c].current = counter]
    /\ UNCHANGED <<c0, counter, year_off, t_pc, rets>>
    /\ UNCHANGED <<gen_vars, call_vars, hist_vars, track_vars, mix_vars, other_vars>>

\* the wall clock passes into the next year
YearTick ==
    /\ year_off < MaxYearOff
    /\ year_off' = year_off + 1
    /\ UNCHANGED <<c0, counter, t_pc, t_current, rets>>
    /\ UNCHANGED <<gen_vars, call_vars, hist_vars, track_vars, mix_vars, other_vars>>

\* let seq = AtomicU64::new(12345), the generator of the 64-bit core unused
TenantInit ==
    /\ c0 \in 0 .. MaxCounter0 /\ counter = c0
    /\ year_off \in 0 .. MaxYearOff
    /\ t_pc = [c \in Callers |-> "idle"]
    /\ t_current = [c \in Callers |-> NoLocal]
    /\ rets = <<>>
    /\ persona = new_random(0) /\ last_ts = 0 /\ sequence = 0 /\ mode = "B"
    /\ config = Config_new("Second") /\ shard = 0
    /\ CallInit /\ HistInit /\ MixIdle /\ OtherIdle

TenantNext ==
    \/ \E c \in Callers : TLoad(c) \/ TCasOk(c) \/ TCasFail(c) \/ TCasSpurious(c)
    \/ YearTick

SpecTenant == TenantInit /\ [][TenantNext]_vars

\* every caller's thread keeps running: an iteration of its retry loop that
\* can be taken is taken, and an exchange that can succeed does not fail
\* spuriously for ever
TenantFair ==
    \A c \in Callers : WF_vars(TCasOk(c)) /\ WF_vars(TCasFail(c))

\* the callers within one year of the clock
TenantFairInit == TenantInit /\ year_off = 0

TenantFairNext ==
    \E c \in Callers : TLoad(c) \/ TCasOk(c) \/ TCasFail(c) \/ TCasSpurious(c)

SpecTenantFair == TenantFairInit /\ [][TenantFairNext]_vars /\ TenantFair

\* one thread alone on the counter (bin/proof_chrono32y_mode_b.rs)
TenantSeqNext == TLoad(1) \/ TCasOk(1) \/ TCasSpurious(1) \/ YearTick

SpecTenantSeq == TenantInit /\ [][TenantSeqNext]_vars

(***************************************************************************)
(* generate_at called by several threads with no lock around it: every      *)
(* atomic load and store of last_ts and sequence is a step of its own.      *)
(* (Safe Rust rules this out through `&mut self`; the steps are those of a  *)
(* caller that shares the generator regardless.)                            *)
(***************************************************************************)

\* threads sharing the generator, calls they make in all
RaceThreads == 2
RaceCalls == 2

Threads == 1 .. RaceThreads

NoRaceLocal == [ts |-> 0, last |-> 0, loaded |-> 0, seq |-> 0, started |-> 0]

InFlight == Cardinality({d \in Threads : r_pc[d] # "idle"})

\* the counter stepped atomically (fetch_add): from its present value
RaceSeqFetchAdd(loaded, shared, cfg) == BitAnd(shared + 1, MaskOf(cfg.seq_bits))

\* seq = (seq + 1) & seq_mask: from the value loaded at the start of the call
RaceSeq(loaded, shared, cfg) == BitAnd(loaded + 1, MaskOf(cfg.seq_bits))

\* what the handler may leave in persona (Mode A draws a new one)
HandlerDraws == IF mode = "A" THEN Persona_new_random ELSE {persona}

\* let last = self.last_ts.load(Ordering::Relaxed)
RLoadLast(c) ==
    /\ r_pc[c] = "idle"
    /\ Len(r_rets) + InFlight < RaceCalls
    /\ \E t \in 0 .. MaxTick :
        r_loc' = [r_loc EXCEPT ![c] = [ts |-> t, last |-> last_ts, loaded |-> 0,
                                       seq |-> 0, started |-> Len(r_rets)]]
    /\ r_pc' = [r_pc EXCEPT ![c] = "load_seq"]
    /\ UNCHANGED <<gen_vars, r_rets>>
    /\ UNCHANGED <<call_vars, hist_vars, track_vars, tenant_vars, mix_vars, lock_vars, extra_vars>>

\* let mut seq = self.sequence.load(Ordering::Relaxed)
RLoadSeq(c) ==
    /\ r_pc[c] = "load_seq"
    /\ r_loc' = [r_loc EXCEPT ![c].loaded = sequence, ![c].seq = sequence]
    /\ r_pc' = [r_pc EXCEPT ![c] = "branch"]
    /\ UNCHANGED <<gen_vars, r_rets>>
    /\ UNCHANGED <<call_vars, hist_vars, track_vars, tenant_vars, mix_vars, lock_vars, extra_vars>>

\* the first write of the branch taken: last_ts.store on an advanced tick,
\* sequence.store on the same tick, the handler on a rolled-back tick
RBranch(c) ==
    /\ r_pc[c] = "branch"
    /\ LET l == r_loc[c]
           nseq == RaceSeq(l.seq, sequence, config)
       IN  IF l.ts > l.last
           THEN /\ last_ts' = l.ts
                /\ r_loc' = [r_loc EXCEPT ![c].seq = 0]
                /\ r_pc' = [r_pc EXCEPT ![c] = "store_seq"]
                /\ UNCHANGED <<persona, sequence>>
           ELSE IF l.ts = l.last
           THEN /\ sequence' = nseq
                /\ r_loc' = [r_loc EXCEPT ![c].seq = nseq]
                /\ r_pc' = [r_pc EXCEPT ![c] = IF nseq = 0 THEN "handler" ELSE "assemble"]
                /\ UNCHANGED <<persona, last_ts>>
           ELSE /\ \E rnd \in HandlerDraws : persona' = Handler(Gen, rnd)
                /\ r_loc' = [r_loc EXCEPT ![c].seq = nseq]
                /\ r_pc' = [r_pc EXCEPT ![c] = "store_seq"]
                /\ UNCHANGED <<last_ts, sequence>>
    /\ UNCHANGED <<mode, config, shard, r_rets>>
    /\ UNCHANGED <<call_vars, hist_vars, track_vars, tenant_vars, mix_vars, lock_vars, extra_vars>>

\* self.sequence.store(seq, Ordering::Relaxed) after the first write
RStoreSeq(c) ==
    /\ r_pc[c] = "store_seq"
    /\ sequence' = r_loc[c].seq
    /\ r_pc' = [r_pc EXCEPT ![c] = "assemble"]
    /\ UNCHANGED <<persona, last_ts, mode, config, shard, r_loc, r_rets>>
    /\ UNCHANGED <<call_vars, hist_vars, track_vars, tenant_vars, mix_vars, lock_vars, extra_vars>>

\* if seq == 0 { match self.mode { ... } }
RHandler(c) ==
    /\ r_pc[c] = "handler"
    /\ \E rnd \in HandlerDraws : persona' = Handler(Gen, rnd)
    /\ r_pc' = [r_pc EXCEPT ![c] = "assemble"]
    /\ UNCHANGED <<last_ts, sequence, mode, config, shard, r_loc, r_rets>>
    /\ UNCHANGED <<call_vars, hist_vars, track_vars, tenant_vars, mix_vars, lock_vars, extra_vars>>

\* self.assemble(ts_units, seq)
RAssemble(c) ==
    /\ r_pc[c] = "assemble"
    /\ r_rets' = Append(r_rets,
           [thread |-> c, ts |-> r_loc[c].ts, last |-> r_loc[c].last,
            loaded |-> r_loc[c].loaded, seq |-> r_loc[c].seq,
            started |-> r_loc[c].started, persona |-> persona,
            id |-> assemble(Gen, r_loc[c].ts, r_loc[c].seq)])
    /\ r_pc' = [r_pc EXCEPT ![c] = "idle"]
    /\ r_loc' = [r_loc EXCEPT ![c] = NoRaceLocal]
    /\ UNCHANGED gen_vars
    /\ UNCHANGED <<call_vars, hist_vars, track_vars, tenant_vars, mix_vars, lock_vars, extra_vars>>

\* a generator fresh from new(), new_mode_b(), new_mode_c(s) or
\* new_mode_c_us(s), s being the node id its persona was drawn with
RaceInit ==
    /\ mode \in Modes
    /\ config \in IF mode = "C"
                  THEN {Config_new("Second"), Config_new("Microsecond")}
                  ELSE {Config_new("Second")}
    /\ persona \in Persona_new_random /\ shard = persona.node_id
    /\ last_ts = 0 /\ sequence = 0
    /\ CallInit /\ HistInit /\ TenantIdle /\ MixIdle /\ LockIdle /\ ExtraIdle
    /\ r_pc = [c \in Threads |-> "idle"]
    /\ r_loc = [c \in Threads |-> NoRaceLocal]
    /\ r_rets = <<>>

RaceNext ==
    \E c \in Threads :
        RLoadLast(c) \/ RLoadSeq(c) \/ RBranch(c) \/ RStoreSeq(c) \/ RHandler(c)
            \/ RAssemble(c)

SpecRace == RaceInit /\ [][RaceNext]_vars

(***************************************************************************)
(* Two generators built alike and driven with the same ticks               *)
(* (run_scenario_1_self_healing: node_a and node_b)                        *)
(***************************************************************************)

TwinCalls == 3

\* node_a.generate_at(t); node_b.generate_at(t): each generator has its own
\* source of randomness.
TwinGenerateAt ==
    /\ calls < TwinCalls
    /\ \E t \in 0 .. MaxTick :
          /\ GenerateAtCall(t)
          /\ \E rnd \in Persona_new_random :
                \E r \in {generate_at(twin.gen, t, rnd)} :
                    twin' = [gen |-> r.gen, id |-> r.id, case |-> r.case]
    /\ drawn' = (drawn \/ (mode = "A" /\ out'.case \in {"overflow", "rollback"}))
    /\ Track
    /\ calls' = calls + 1
    /\ UNCHANGED <<burst, race_vars, lock_vars, pack, clock>>

\* let mut node_a = ...; let mut node_b = ...: the same persona, start
\* sequence, mode and configuration.
TwinInit ==
    /\ GenInit /\ CallInit /\ HistInit /\ TenantIdle /\ MixIdle /\ RaceIdle /\ LockIdle
    /\ twin = [gen |-> Gen, id |-> 0, case |-> "none"]
    /\ drawn = FALSE
    /\ pack = <<>> /\ clock = 0

SpecTwin == TwinInit /\ [][TwinGenerateAt]_vars

\* node_a.rotate_persona(); node_b.rotate_persona(), called once the two
\* generators, never rotated, have returned the same id: each draws its own
\* persona.
TwinRotate ==
    /\ pc = "idle" /\ mode = "A"
    /\ ~drawn /\ out.kind = "id" /\ out.id = twin.id
    /\ persona' \in Persona_new_random
    /\ \E rnd \in Persona_new_random : twin' = [twin EXCEPT !.gen.persona = rnd]
    /\ drawn' = TRUE
    /\ rotated' = "persona"
    /\ out' = NoOut
    /\ UNCHANGED <<last_ts, sequence, mode, config, shard, call_vars, track_vars,
                   tenant_vars, mix_vars, race_vars, lock_vars, pack, clock>>

\* Generator::new_with_persona(p, 0) for both
HealInit == TwinInit /\ mode = "A" /\ sequence = 0

\* the calls of the scenario: those before the rotation and the one after it
HealGenerateAt == (rotated = "persona" => out = NoOut) /\ TwinGenerateAt

HealNext == HealGenerateAt \/ TwinRotate

SpecHeal == HealInit /\ [][HealNext]_vars

(***************************************************************************)
(* assemble on its own: two generators of one Config, of any persona and    *)
(* mode, each assembling an id from a tick and a stored sequence            *)
(***************************************************************************)

\* ticks handed to assemble: 0 .. MaxPackTick, reaching past 2^time_bits
MaxPackTick == 4

\* The generators of one Config: every mode, every persona drawn.
PackGens(cfg) ==
    {[persona |-> p, last_ts |-> 0, sequence |-> 0, mode |-> m, config |-> cfg] :
        p \in Persona_new_random, m \in Modes}

PackInputs ==
    UNION {[a : PackGens(cfg), b : PackGens(cfg),
            t1 : 0 .. MaxPackTick, t2 : 0 .. MaxPackTick,
            s1 : 0 .. MaskOf(cfg.seq_bits), s2 : 0 .. MaskOf(cfg.seq_bits),
            id1 : {0}, id2 : {0}, done : {FALSE}] :
           cfg \in {Config_new("Second"), Config_new("Microsecond")}}

\* self.assemble(ts_units, seq) on either generator
PackAssemble ==
    /\ ~pack.done
    /\ pack' = [pack EXCEPT !.id1 = assemble(pack.a, pack.t1, pack.s1),
                            !.id2 = assemble(pack.b, pack.t2, pack.s2),
                            !.done = TRUE]
    /\ UNCHANGED <<gen_vars, call_vars, hist_vars, track_vars, tenant_vars, mix_vars,
                   race_vars, lock_vars, twin, drawn, clock>>

PackInit ==
    /\ pack \in PackInputs
    /\ persona = new_random(0)
    /\ last_ts = 0 /\ sequence = 0 /\ mode = "A" /\ config = Config_new("Second")
    /\ shard = 0
    /\ CallInit /\ HistInit /\ TenantIdle /\ MixIdle /\ RaceIdle /\ LockIdle
    /\ twin = <<>> /\ drawn = FALSE /\ clock = 0

SpecPack == PackInit /\ [][PackAssemble]_vars

(***************************************************************************)
(* Manual rotation between calls: rotate_params_only on a Mode C generator  *)
(* (run_scenario_5_mode_c), rotate_persona on a Mode A generator            *)
(* (run_scenario_3_burst)                                                   *)
(***************************************************************************)

\* calls made in one run
RotCalls == 3

\* let id = gen.generate_at(t); unique_ids.insert(id)
RotGenerateAt ==
    /\ calls < RotCalls
    /\ \E t \in 0 .. MaxTick : GenerateAtCall(t)
    /\ Track
    /\ fresh' = IF out'.case \in {"overflow", "rollback"} THEN {out'.id}
                ELSE fresh \cup {out'.id}
    /\ fresh_dup' = (out'.case \notin {"overflow", "rollback"} /\ out'.id \in fresh)
    /\ calls' = calls + 1
    /\ UNCHANGED <<burst, holder, by, race_vars, extra_vars>>

\* gen.rotate_salt_only() in Mode C, gen.rotate_persona() in Mode A
RotRotate == IF mode = "C" THEN RotateParamsOnly ELSE RotatePersona

RotInit == Init /\ mode \in {"A", "C"}

RotNext == RotGenerateAt \/ RotRotate

SpecRotate == RotInit /\ [][RotNext]_vars

(***************************************************************************)
(* generate_at calls on one generator of any mode, rotations in between,    *)
(* every call logged: its tick and branch, node_id and sequence after it    *)
(***************************************************************************)

\* calls made in one run
LogCalls == 3

\* gen.generate_at(t), logged
LogGenerateAt ==
    /\ calls < LogCalls
    /\ \E t \in 0 .. MaxTick :
          /\ GenerateAtCall(t)
          /\ burst' = Append(burst, [ts |-> t, case |-> out'.case,
                                     node |-> persona'.node_id, seq |-> sequence'])
    /\ calls' = calls + 1
    /\ UNCHANGED <<issued, dup, other_vars>>

\* gen.rotate_persona() or gen.rotate_params_only() between two calls, once
\* in a run
LogRotate == rotated = "none" /\ out.kind = "id" /\ (RotatePersona \/ RotateParamsOnly)

LogNext == LogGenerateAt \/ LogRotate

SpecLog == Init /\ [][LogNext]_vars

(***************************************************************************)
(* Mode C generate() under a wall clock that never moves backwards and      *)
(* keeps advancing: every reading of SystemTime::now() is the clock's value *)
(***************************************************************************)

\* the last reading of the clock the model follows (microseconds)
MaxClockUs == 6

\* the wall clock advances
ClockTick ==
    /\ clock < MaxClockUs
    /\ clock' = clock + 1
    /\ UNCHANGED <<gen_vars, call_vars, hist_vars, track_vars, tenant_vars, mix_vars,
                   race_vars, lock_vars, twin, drawn, pack>>

\* The last tick the clock reaches: calls are followed while the clock has a
\* tick ahead of the generator.
Horizon == TsUnits(config, MaxClockUs)

\* gen.generate() is called
ClockCall ==
    /\ pc = "idle"
    /\ TsUnits(config, clock) < Horizon /\ last_ts < Horizon
    /\ GenerateCall(clock)
    /\ UNCHANGED <<track_vars, other_vars>>

\* gen.generate_at(t), which may put last_tick ahead of the clock
ClockGenerateAt ==
    /\ \E t \in 0 .. MaxTick : t < Horizon /\ GenerateAtCall(t)
    /\ UNCHANGED <<track_vars, other_vars>>

\* return self.generate(), after a spin
ClockRetry ==
    /\ pc = "retry"
    /\ GenerateCall(clock)
    /\ UNCHANGED <<track_vars, other_vars>>

\* one iteration of either spin loop
ClockSpin == SpinOverflow(clock) \/ SpinRollback(clock)

ClockNext == ClockTick \/ ClockCall \/ ClockGenerateAt \/ ClockRetry \/ ClockSpin

\* the clock keeps advancing and the calling thread keeps running
SpecClock ==
    /\ ModeCInit /\ [][ClockNext]_vars
    /\ WF_vars(ClockTick) /\ WF_vars(ClockRetry) /\ WF_vars(ClockSpin)

(***************************************************************************)
(* Pure functions on their own: the function named by pack.fn is applied   *)
(* to the arguments drawn into pack.arg                                     *)
(***************************************************************************)

\* a row of the variant table as a record; width is 32 when the name
\* contains "32" and 64 otherwise
Row(r) == [name |-> r[1], bits_t |-> r[2], bits_n |-> r[3], bits_s |-> r[4],
           signed |-> r[5], width |-> r[6]]

\* The variant table with chrono64s given the unsigned split 33/16/15.
VariantsSignedFull ==
    {Row(r) : r \in {
     <<"uchrono64s", 33, 16, 15, FALSE, 64>>,
     <<"chrono64s", 33, 16, 15, TRUE, 64>>,
     <<"uchrono64ms", 43, 11, 10, FALSE, 64>>,
     <<"chrono64ms", 43, 10, 10, TRUE, 64>>,
     <<"uchrono64us", 53, 6, 5, FALSE, 64>>,
     <<"chrono64us", 53, 5, 5, TRUE, 64>>,
     <<"uchrono64mo", 12, 26, 26, FALSE, 64>>,
     <<"chrono64mo", 12, 25, 26, TRUE, 64>>,
     <<"uchrono64w", 14, 26, 24, FALSE, 64>>,
     <<"chrono64w", 14, 25, 24, TRUE, 64>>,
     <<"uchrono64d", 17, 24, 23, FALSE, 64>>,
     <<"chrono64d", 17, 23, 23, TRUE, 64>>,
     <<"uchrono64h", 21, 22, 21, FALSE, 64>>,
     <<"chrono64h", 21, 21, 21, TRUE, 64>>,
     <<"uchrono64m", 27, 19, 18, FALSE, 64>>,
     <<"chrono64m", 27, 18, 18, TRUE, 64>>,
     <<"uchrono32y", 8, 13, 11, FALSE, 32>>,
     <<"chrono32y", 8, 12, 11, TRUE, 32>>,
     <<"uchrono32hy", 9, 12, 11, FALSE, 32>>,
     <<"chrono32hy", 9, 11, 11, TRUE, 32>>,
     <<"uchrono32q", 10, 11, 11, FALSE, 32>>,
     <<"chrono32q", 10, 10, 11, TRUE, 32>>,
     <<"uchrono32mo", 12, 10, 10, FALSE, 32>>,
     <<"chrono32mo", 12, 9, 10, TRUE, 32>>,
     <<"uchrono32w", 14, 9, 9, FALSE, 32>>,
     <<"chrono32w", 14, 8, 9, TRUE, 32>>,
     <<"uchrono32d", 17, 8, 7, FALSE, 32>>,
     <<"chrono32d", 17, 7, 7, TRUE, 32>>,
     <<"uchrono32h", 22, 5, 5, FALSE, 32>>,
     <<"chrono32h", 22, 4, 5, TRUE, 32>>,
     <<"uchrono32tm", 24, 4, 4, FALSE, 32>>,
     <<"chrono32tm", 24, 3, 4, TRUE, 32>>,
     <<"uchrono32m_sort", 28, 2, 2, FALSE, 32>>,
     <<"chrono32m_sort", 28, 1, 2, TRUE, 32>>,
     <<"uchrono32bs", 32, 0, 0, FALSE, 32>>,
     <<"chrono32bs", 31, 0, 0, TRUE, 32>>}}

\* let variants = vec![ ... ] of bin/proof_bit_splits.rs
Variants ==
    {Row(r) : r \in {
     <<"uchrono64s", 33, 16, 15, FALSE, 64>>,
     <<"chrono64s", 33, 15, 15, TRUE, 64>>,
     <<"uchrono64ms", 43, 11, 10, FALSE, 64>>,
     <<"chrono64ms", 43, 10, 10, TRUE, 64>>,
     <<"uchrono64us", 53, 6, 5, FALSE, 64>>,
     <<"chrono64us", 53, 5, 5, TRUE, 64>>,
     <<"uchrono64mo", 12, 26, 26, FALSE, 64>>,
     <<"chrono64mo", 12, 25, 26, TRUE, 64>>,
     <<"uchrono64w", 14, 26, 24, FALSE, 64>>,
     <<"chrono64w", 14, 25, 24, TRUE, 64>>,
     <<"uchrono64d", 17, 24, 23, FALSE, 64>>,
     <<"chrono64d", 17, 23, 23, TRUE, 64>>,
     <<"uchrono64h", 21, 22, 21, FALSE, 64>>,
     <<"chrono64h", 21, 21, 21, TRUE, 64>>,
     <<"uchrono64m", 27, 19, 18, FALSE, 64>>,
     <<"chrono64m", 27, 18, 18, TRUE, 64>>,
     <<"uchrono32y", 8, 13, 11, FALSE, 32>>,
     <<"chrono32y", 8, 12, 11, TRUE, 32>>,
     <<"uchrono32hy", 9, 12, 11, FALSE, 32>>,
     <<"chrono32hy", 9, 11, 11, TRUE, 32>>,
     <<"uchrono32q", 10, 11, 11, FALSE, 32>>,
     <<"chrono32q", 10, 10, 11, TRUE, 32>>,
     <<"uchrono32mo", 12, 10, 10, FALSE, 32>>,
     <<"chrono32mo", 12, 9, 10, TRUE, 32>>,
     <<"uchrono32w", 14, 9, 9, FALSE, 32>>,
     <<"chrono32w", 14, 8, 9, TRUE, 32>>,
     <<"uchrono32d", 17, 8, 7, FALSE, 32>>,
     <<"chrono32d", 17, 7, 7, TRUE, 32>>,
     <<"uchrono32h", 22, 5, 5, FALSE, 32>>,
     <<"chrono32h", 22, 4, 5, TRUE, 32>>,
     <<"uchrono32tm", 24, 4, 4, FALSE, 32>>,
     <<"chrono32tm", 24, 3, 4, TRUE, 32>>,
     <<"uchrono32m_sort", 28, 2, 2, FALSE, 32>>,
     <<"chrono32m_sort", 28, 1, 2, TRUE, 32>>,
     <<"uchrono32bs", 32, 0, 0, FALSE, 32>>,
     <<"chrono32bs", 31, 0, 0, TRUE, 32>>}}

\* The Configs of Config::new as rows, against the width of the model's word.
ConfigRows ==
    {[name |-> p, bits_t |-> Config_new(p).time_bits, bits_n |-> Config_new(p).node_bits,
      bits_s |-> Config_new(p).seq_bits, signed |-> FALSE, width |-> WORD_BITS] :
        p \in {"Second", "Microsecond"}}

\* The bits set in the maximal id (max_t << shift_t) | (max_n << shift_n) | max_s
\* of a row, as bit positions of a u64, cut to u32 for a 32-bit variant.
MaxIdBits(v) ==
    LET shift_n == v.bits_s
        shift_t == v.bits_n + v.bits_s
        all == {shift_t + i : i \in 0 .. (v.bits_t - 1)}
                 \cup {shift_n + i : i \in 0 .. (v.bits_n - 1)}
                 \cup 0 .. (v.bits_s - 1)
    IN  {b \in all : b < v.width}

\* check(v) of bin/proof_bit_splits.rs: what it prints for a row
check(v) ==
    LET total == v.bits_t + v.bits_n + v.bits_s IN
    IF total > v.width THEN "fail_width"
    ELSE IF v.signed /\ total >= v.width THEN "fail_signed"
    ELSE IF v.signed /\ (v.width - 1) \in MaxIdBits(v) THEN "fail_negative"
    ELSE "pass"

\* widest node and sequence fields of the rows tried beside the table
MaxProbe == 1

\* rows around the 32-bit budget, beside those of the table and of Config::new
AuditInputs ==
    [fn : {"check"},
     arg : Variants \cup ConfigRows
             \cup {Row(<<"probe32", t, n, s, sg, 32>>) :
                      t \in 30 .. 33, n \in 0 .. MaxProbe, s \in 0 .. MaxProbe,
                      sg \in BOOLEAN},
     res : {<<>>}, done : {FALSE}]

\* u32 scaled: 8 bits of year, 23 of entropy and the sign bit become 3 + 2 + 1
U32_BITS == 6
Y32_BITS == 3
ENTROPY_BITS == 2
\* epoch_secs (2020-01-01) and the seconds of a year, scaled
EPOCH_SECS == 2
YEAR_SECS == 2

\* secs_since_2020 / 31_557_600, with the saturating subtraction
YearOffset(now_secs) ==
    (IF now_secs > EPOCH_SECS THEN now_secs - EPOCH_SECS ELSE 0) \div YEAR_SECS

\* generate_uchrono32y: one more bit of entropy, the year one bit higher
generate_uchrono32y(now_secs, rnd) ==
    LET year == BitAnd(YearOffset(now_secs), MaskOf(Y32_BITS))
        entropy == BitAnd(rnd, MaskOf(ENTROPY_BITS + 1))
    IN  BitOr((year * Pow2(ENTROPY_BITS + 1)) % Pow2(U32_BITS), entropy)

\* generate_chrono32y: now_secs is the clock's reading, rnd the u32 drawn
generate_chrono32y(now_secs, rnd) ==
    LET year == BitAnd(YearOffset(now_secs), MaskOf(Y32_BITS))
        entropy == BitAnd(rnd, MaskOf(ENTROPY_BITS))
    IN  BitOr((year * Pow2(ENTROPY_BITS)) % Pow2(U32_BITS), entropy)

\* latest reading of the clock, in scaled seconds: past the years of the mask
MaxNowSecs == 32

\* clock readings and draws of rng.gen::<u32>()
TenantIdInputs ==
    [fn : {"chrono32y"},
     arg : (0 .. MaxNowSecs) \X (0 .. Pow2(U32_BITS) - 1),
     res : {<<>>}, done : {FALSE}]

\* The hex digits of a u32 and of each half of XXXX-XXXX, scaled: 8 and 4
\* become 4 and 2, so a u32 is a value below 16^4.
HEX_DIGITS == 4
HEX_HALF == 2
\* the bytes of '-', '0', 'A' and 'a'
HYPHEN == 45
CHAR_0 == 48
CHAR_A == 65
CHAR_a == 97

\* a string is the sequence of its bytes
HexCharLower(d) == IF d < 10 THEN CHAR_0 + d ELSE CHAR_a + (d - 10)

\* the digit characters of {:X}
HexChar(d) == IF d < 10 THEN CHAR_0 + d ELSE CHAR_A + (d - 10)

\* {:X} without a width: the digits of x, most significant first
RECURSIVE UpperHex(_)
UpperHex(x) == IF x < 16 THEN <<HexChar(x)>> ELSE Append(UpperHex(x \div 16), HexChar(x % 16))

\* n zeros
Zeros(n) == [i \in 1 .. n |-> CHAR_0]

\* {:<08X}: the zeros of the padding after the digits
PadRight(x) ==
    LET d == UpperHex(x)
    IN  IF Len(d) >= HEX_DIGITS THEN d ELSE d \o Zeros(HEX_DIGITS - Len(d))

\* format!("{:08X}", id): zeros before the digits up to the width
Pad08X(x) ==
    LET d == UpperHex(x)
    IN  IF Len(d) >= HEX_DIGITS THEN d ELSE Zeros(HEX_DIGITS - Len(d)) \o d

\* format_hyphenated_hex with {:08x}
format_hyphenated_hex_lower(id) ==
    LET h == [i \in 1 .. HEX_DIGITS |->
                 HexCharLower((id \div (16 ^ (HEX_DIGITS - i))) % 16)]
    IN  SubSeq(h, 1, HEX_HALF) \o <<HYPHEN>> \o SubSeq(h, HEX_HALF + 1, HEX_DIGITS)

\* format_hyphenated_hex
format_hyphenated_hex(id) ==
    LET h == Pad08X(id)
    IN  SubSeq(h, 1, HEX_HALF) \o <<HYPHEN>> \o SubSeq(h, HEX_HALF + 1, HEX_DIGITS)

\* char::to_digit(16), -1 for a character that is no hex digit
ToDigit(c) ==
    IF c >= CHAR_0 /\ c < CHAR_0 + 10 THEN c - CHAR_0
    ELSE IF c >= CHAR_A /\ c < CHAR_A + 6 THEN c - CHAR_A + 10
    ELSE IF c >= CHAR_a /\ c < CHAR_a + 6 THEN c - CHAR_a + 10
    ELSE -1

\* u32::from_str_radix(s, 16); -1 stands for Err (empty, a character that is
\* no digit, or a value beyond u32)
RECURSIVE from_str_radix(_)
from_str_radix(str) ==
    IF str = <<>> THEN -1
    ELSE LET d == ToDigit(str[Len(str)])
             hi == IF Len(str) = 1 THEN 0 ELSE from_str_radix(SubSeq(str, 1, Len(str) - 1))
         IN  IF d < 0 \/ hi < 0 \/ hi * 16 + d >= 16 ^ HEX_DIGITS THEN -1
             ELSE hi * 16 + d

\* decode_hyphenated_hex of bin/proof_sortability.rs; -1 is the panic of expect
decode_hyphenated_hex(str) ==
    from_str_radix(SelectSeq(str, LAMBDA c : c # HYPHEN))

\* the order of str on its bytes
StrLess(a, b) ==
    \E i \in 1 .. Len(b) :
        /\ \A j \in 1 .. (i - 1) : j <= Len(a) /\ a[j] = b[j]
        /\ (i > Len(a) \/ a[i] < b[i])

\* the digits the pairs of C25 are made of: both ends of 0-9 and of A-F
ProbeDigits == {0, 9, 10, 15}

\* the values whose hex digits are all probe digits
ProbeValues ==
    {((d[1] * 16 + d[2]) * 16 + d[3]) * 16 + d[4] :
        d \in [1 .. HEX_DIGITS -> ProbeDigits]}

\* every u32 for the round trip; for the order every pair of neighbours
\* x, x + 1 and every pair x < y of probe values
HexInputs ==
    [fn : {"hex"}, arg : {<<x>> : x \in 0 .. (16 ^ HEX_DIGITS - 1)},
     res : {<<>>}, done : {FALSE}]
      \cup [fn : {"hexpair"},
            arg : {xy \in ProbeValues \X ProbeValues : xy[1] < xy[2]}
                    \cup {<<x, x + 1>> : x \in 0 .. (16 ^ HEX_DIGITS - 2)},
            res : {<<>>}, done : {FALSE}]

\* Config { time_bits, node_bits, seq_bits, unit_us }: the struct's fields are
\* public and are written directly (generate_uchrono64ms_at); no constructor
\* or setter looks at their sum, so building any layout yields the Config.
Config_fields(time_bits, node_bits, seq_bits, unit_us) ==
    <<"Ok", [time_bits |-> time_bits, node_bits |-> node_bits,
             seq_bits |-> seq_bits, unit_us |-> unit_us]>>

\* widest field of the layouts built
MaxCfgBits == 3

\* layouts by field, for a signed-safe target or not
ConfigInputs ==
    [fn : {"config"},
     arg : (0 .. MaxCfgBits) \X (0 .. MaxCfgBits) \X (0 .. MaxCfgBits) \X BOOLEAN,
     res : {<<>>}, done : {FALSE}]

\* calls of a run beyond the 2^seq_bits sequences of one tick
RunExtra == 1

RunLen == Pow2(SEQ_BITS) + RunExtra

\* for _ in 0..n { gen.generate_at(t) }: what each call hands back
RECURSIVE RunAt(_, _, _, _)
RunAt(g, t, rnd, n) ==
    IF n = 0 THEN <<>>
    ELSE LET r == generate_at(g, t, rnd) IN <<r>> \o RunAt(r.gen, t, rnd, n - 1)

\* the function is applied
PureApply ==
    /\ ~pack.done
    /\ pack' = [pack EXCEPT !.done = TRUE,
                            !.res = CASE pack.fn = "check" -> <<check(pack.arg)>>
                                      [] pack.fn = "chrono32y" ->
                                           <<generate_chrono32y(pack.arg[1], pack.arg[2])>>
                                      [] pack.fn = "generate_at" ->
                                           generate_at(pack.arg.g, pack.arg.t, pack.arg.rnd)
                                      [] pack.fn = "generate" ->
                                           generate(pack.arg.g, pack.arg.t, pack.arg.rnd)
                                      [] pack.fn = "run" ->
                                           RunAt(pack.arg.g, pack.arg.t, pack.arg.rnd,
                                                 RunLen)
                                      [] pack.fn = "config" ->
                                           Config_fields(pack.arg[1], pack.arg[2],
                                                         pack.arg[3], 1)
                                      [] pack.fn = "hex" ->
                                           LET enc == format_hyphenated_hex(pack.arg[1])
                                           IN  <<enc, <<decode_hyphenated_hex(enc)>> >>
                                      [] pack.fn = "hexpair" ->
                                           <<format_hyphenated_hex(pack.arg[1]),
                                             format_hyphenated_hex(pack.arg[2])>>]
    /\ UNCHANGED <<gen_vars, call_vars, hist_vars, track_vars, tenant_vars, mix_vars,
                   race_vars, lock_vars, twin, drawn, clock>>

\* everything but the function under test is idle
PureRest ==
    /\ persona = new_random(0)
    /\ last_ts = 0 /\ sequence = 0 /\ mode = "A" /\ config = Config_new("Second")
    /\ shard = 0
    /\ CallInit /\ HistInit /\ TenantIdle /\ MixIdle /\ RaceIdle /\ LockIdle
    /\ twin = <<>> /\ drawn = FALSE /\ clock = 0

PureInit ==
    /\ \/ pack \in AuditInputs
       \/ pack \in TenantIdInputs
       \/ pack \in ConfigInputs
    /\ PureRest

HexInit == pack \in HexInputs /\ PureRest

SpecHex == HexInit /\ [][PureApply]_vars

(***************************************************************************)
(* One call on a generator in any state it can be in                       *)
(***************************************************************************)

\* The states of a generator: built by any constructor (last_ts 0, Mode A
\* with any starting sequence) or left by earlier calls (any last_ts, the
\* sequence within its field).
StepGens ==
    {g \in [persona : Persona_new_random, last_ts : 0 .. MaxTick,
            sequence : 0 .. MaxStartSeq, mode : Modes,
            config : {Config_new("Second"), Config_new("Microsecond")}] :
        /\ g.mode # "C" => g.config = Config_new("Second")
        /\ g.sequence > MaskOf(g.config.seq_bits) => (g.mode = "A" /\ g.last_ts = 0)}

\* gen.generate_at(t) for a tick t; gen.generate() for a reading t of the
\* clock.  rnd is the persona a rotation inside the call would draw.
StepInputs ==
    [fn : {"generate_at"},
     arg : [g : StepGens, t : 0 .. MaxTick, rnd : Persona_new_random],
     res : {<<>>}, done : {FALSE}]
      \cup [fn : {"generate"},
            arg : [g : StepGens, t : 0 .. MaxNowUs, rnd : Persona_new_random],
            res : {<<>>}, done : {FALSE}]

\* runs of calls at one tick, from any state of a generator
RunInputs ==
    [fn : {"run"},
     arg : [g : StepGens, t : 0 .. MaxTick, rnd : Persona_new_random],
     res : {<<>>}, done : {FALSE}]

StepInit == (pack \in StepInputs \/ pack \in RunInputs) /\ PureRest

SpecStep == StepInit /\ [][PureApply]_vars

SpecPure == PureInit /\ [][PureApply]_vars

(***************************************************************************)
(* One Mode A generator behind a Mutex, shared by threads that each lock    *)
(* it, call generate() and unlock (bin/proof_contention.rs)                 *)
(***************************************************************************)

\* threads sharing the Mutex, calls they make in all
LockThreads == 2
LockedCalls == 4

\* let mut g = gen_clone.lock().unwrap()
Lock(c) ==
    /\ holder = 0 /\ calls < LockedCalls
    /\ holder' = c
    /\ UNCHANGED <<by, fresh, fresh_dup>>
    /\ UNCHANGED <<gen_vars, call_vars, hist_vars, track_vars, tenant_vars, mix_vars,
                   race_vars, extra_vars>>

\* local_ids.push(g.generate()), the guard dropped at the end of the iteration
LockedGenerate(c) ==
    /\ holder = c
    /\ \E n \in 0 .. MaxNowUs : GenerateCall(n)
    /\ Track
    /\ fresh' = IF out'.case \in {"overflow", "rollback"}
                THEN {out'.id} ELSE fresh \cup {out'.id}
    /\ fresh_dup' = (out'.case \notin {"overflow", "rollback"} /\ out'.id \in fresh)
    /\ by' = c /\ holder' = 0
    /\ calls' = calls + 1
    /\ UNCHANGED <<burst, race_vars, extra_vars>>

\* Arc::new(Mutex::new(Generator::new())), or any other Mode A generator
LockedInit == Init /\ mode = "A"

LockedNext == \E c \in 1 .. LockThreads : Lock(c) \/ LockedGenerate(c)

SpecLocked == LockedInit /\ [][LockedNext]_vars

(***************************************************************************)
(* Claims                                                                  *)
(***************************************************************************)

\* C1 (Mode C routing): on a Mode C generator built with a shard id s below
\* 2^node_bits, every id returned by generate or generate_at, also after
\* rotate_params_only and across overflow and rollback, carries s in its node
\* field: (id >> seq_bits) & node_mask = s.  (rotate_persona is not called.)
C1_ModeCRouting ==
    (mode = "C" /\ rotated # "persona" /\ shard <= MaskOf(config.node_bits)
        /\ out.kind = "id")
    => BitAnd(Shr(out.id, config.seq_bits), MaskOf(config.node_bits)) = shard

\* An id returned on a rolled-back or overflowing call of a re-keyed Mode C
\* generator whose shard id is not zero.
C1_Witness ==
    /\ mode = "C" /\ rotated = "params" /\ shard > 0
    /\ shard <= MaskOf(config.node_bits)
    /\ out.kind = "id" /\ out.case \in {"overflow", "rollback"}

\* C7 (Mode C wait-for-tick): an id that generate() returns after it found the
\* sequence of a tick exhausted has a tick strictly greater than that tick.
C7_WaitForTick ==
    (mode = "C" /\ out.kind = "id" /\ out.op = "generate" /\ out.ovf # NoTick)
    => out.ts > out.ovf

\* One pass of generate() and generate_at agree on the generator they leave,
\* the id and the branch, for the clock reading n and the draw rnd.
SamePass(n, rnd) == generate(Gen, n, rnd) = generate_at(Gen, TsUnits(config, n), rnd)

\* C9 as stated: generate() with the clock reading tick t does what
\* generate_at(t) does, in every mode and every branch.
C9_GenerateIsGenerateAt ==
    pc = "idle" =>
        \A n \in 0 .. MaxNowUs : \A rnd \in Draws(Gen, TsUnits(config, n)) : SamePass(n, rnd)

\* C9 as amended: they agree in Modes A and B in every branch (for the same
\* draw), and in Mode C when the tick advanced or the same tick did not
\* overflow.  On overflow Mode C's generate() stores the wrapped sequence as
\* generate_at does but spins instead of returning the id; on rollback it
\* stores nothing and spins, while generate_at steps the sequence and returns
\* an id for the rolled-back tick.
C9_GenerateIsGenerateAtButModeC ==
    pc = "idle" =>
        \A n \in 0 .. MaxNowUs : \A rnd \in Draws(Gen, TsUnits(config, n)) :
            LET a == generate(Gen, n, rnd)
                b == generate_at(Gen, TsUnits(config, n), rnd)
            IN  IF mode # "C" \/ b.case \in {"advance", "same"}
                THEN a = b
                ELSE /\ a.blocked /\ ~b.blocked
                     /\ a.case = b.case
                     /\ a.gen.last_ts = b.gen.last_ts /\ a.gen.persona = b.gen.persona
                     /\ IF b.case = "overflow"
                        THEN a.gen.sequence = 0 /\ b.gen.sequence = 0
                        ELSE /\ a.gen = Gen
                             /\ b.gen.sequence = NextSeq(Gen)
                             /\ TimeOf(config, b.id) =
                                   BitAnd(TsUnits(config, n), MaskOf(config.time_bits))

\* generate() has returned an id on a rolled-back clock in Mode B, and on an
\* overflow in Mode A.
C9_Witness ==
    /\ out.kind = "id" /\ out.op = "generate"
    /\ \/ mode = "B" /\ out.case = "rollback"
       \/ mode = "A" /\ out.case = "overflow"

\* C10 (mixer bijectivity): for a field of b bits (1 <= b < the word width),
\* any multiplier index and any salt, the normalized multiplier is odd and
\* mix restricted to [0, 2^b) is a bijection onto [0, 2^b).
C10_MixBijective ==
    mix_res # <<>> =>
        /\ mix_args.bits \in 1 .. (WORD_BITS - 1)
        /\ MixMult(mix_args.bits, mix_args.p_idx) % 2 = 1
        /\ \A v \in DOMAIN mix_res : mix_res[v] \in 0 .. (Pow2(mix_args.bits) - 1)
        /\ \A v, w \in DOMAIN mix_res : v # w => mix_res[v] # mix_res[w]
        /\ {mix_res[v] : v \in DOMAIN mix_res} = 0 .. (Pow2(mix_args.bits) - 1)

\* The mixer was run over a field of three bits with an index beyond the
\* table and a salt wider than the field.
C10_Witness ==
    /\ mix_res # <<>>
    /\ mix_args.bits = 3 /\ mix_args.p_idx >= TABLE_LEN /\ mix_args.salt > MaskOf(3)

\* C2: an id generated at a rolled-back tick (requested tick < last_tick)
\* never equals an id the generator returned earlier, in any mode.
C2_RollbackSafety == (out.kind = "id" /\ out.case = "rollback") => ~dup

\* C8: all ids returned by generate() on one Mode C generator are pairwise
\* distinct, whatever the wall clock reads.
C8_ModeCUnique == (mode = "C" /\ out.kind = "id" /\ out.op = "generate") => ~dup


\* Windows of n consecutive calls of the burst: the indices of their first calls
Windows(n) == {i \in 1 .. Len(burst) : i + n - 1 <= Len(burst)}

NodeFieldsOf(i, n) == [j \in i .. (i + n - 1) |-> NodeOf(config, burst[j].id)]

IdsOf(i, n) == [j \in i .. (i + n - 1) |-> burst[j].id]

Injective(f) == \A a, b \in DOMAIN f : f[a] = f[b] => a = b

\* how often value v occurs among the values of f
Occurrences(f, v) == Cardinality({a \in DOMAIN f : f[a] = v})

\* C3 (as stated): any 2^node_bits consecutive ids of a Mode B burst at one
\* fixed tick carry every node-field value exactly once and are pairwise
\* distinct.
C3_FullPeriod ==
    \A i \in Windows(Pow2(config.node_bits)) :
        LET n == Pow2(config.node_bits) IN
        /\ Injective(NodeFieldsOf(i, n))
        /\ {NodeFieldsOf(i, n)[j] : j \in i .. (i + n - 1)} = 0 .. MaskOf(config.node_bits)
        /\ Injective(IdsOf(i, n))

\* C3 (amended): any 2^node_bits consecutive ids of a Mode B burst at one
\* fixed tick are pairwise distinct; they carry every node-field value exactly
\* once when the tick is below last_tick (every call is a rollback call);
\* when the tick is not below last_tick it takes 2^(node_bits + seq_bits)
\* consecutive ids, which are pairwise distinct and carry every node-field
\* value exactly 2^seq_bits times.
C3_FullPeriodPerOverflow ==
    /\ \A i \in Windows(Pow2(config.node_bits)) :
        LET n == Pow2(config.node_bits) IN
        /\ Injective(IdsOf(i, n))
        /\ burst[i].case = "rollback" =>
            /\ Injective(NodeFieldsOf(i, n))
            /\ {NodeFieldsOf(i, n)[j] : j \in i .. (i + n - 1)}
                   = 0 .. MaskOf(config.node_bits)
    /\ \A i \in Windows(Pow2(config.node_bits + config.seq_bits)) :
        LET n == Pow2(config.node_bits + config.seq_bits) IN
        burst[i].case # "rollback" =>
            /\ Injective(IdsOf(i, n))
            /\ \A v \in 0 .. MaskOf(config.node_bits) :
                   Occurrences(NodeFieldsOf(i, n), v) = Pow2(config.seq_bits)

\* a burst at a tick not below last_tick, one full period long
C3_Witness ==
    /\ Len(burst) >= Pow2(config.node_bits + config.seq_bits)
    /\ burst[1].case = "same"
    /\ \E j \in 1 .. Pow2(config.node_bits) : burst[j].case = "overflow"

\* the calls of the burst on which the sequence wrapped, in order
RECURSIVE OverflowsOf(_)
OverflowsOf(b) ==
    IF b = <<>> THEN <<>>
    ELSE IF b[1].case = "overflow" THEN <<b[1]>> \o OverflowsOf(Tail(b))
    ELSE OverflowsOf(Tail(b))

\* step = (3535253579 mod 2^node_bits) | 1, by arithmetic
OddStep(bits) ==
    LET s == WEYL_MAGIC % Pow2(bits) IN IF s % 2 = 1 THEN s ELSE s + 1

\* C4: in a Mode B burst at a fixed tick each sequence overflow advances
\* node_id by exactly one odd step, node_id' = (node_id + step) mod
\* 2^node_bits, the other same-tick calls leave node_id alone, and over any
\* 2^node_bits consecutive overflows node_id and the node field of the
\* emitted ids each take every value of [0, 2^node_bits) exactly once.
C4_WeylCycle ==
    LET nb == config.node_bits
        ovf == OverflowsOf(burst)
    IN  /\ OddStep(nb) % 2 = 1
        /\ \A j \in 1 .. Len(burst) :
            /\ burst[j].case = "overflow" =>
                   burst[j].after = (burst[j].before + OddStep(nb)) % Pow2(nb)
            /\ burst[j].case \in {"same", "advance"} => burst[j].after = burst[j].before
        /\ \A i \in 1 .. Len(ovf) : i + Pow2(nb) - 1 <= Len(ovf) =>
            LET w == i .. (i + Pow2(nb) - 1) IN
            /\ \A a, b \in w : ovf[a].after = ovf[b].after => a = b
            /\ {ovf[a].after : a \in w} = 0 .. MaskOf(nb)
            /\ \A a, b \in w :
                   NodeOf(config, ovf[a].id) = NodeOf(config, ovf[b].id) => a = b
            /\ {NodeOf(config, ovf[a].id) : a \in w} = 0 .. MaskOf(nb)

\* 2^node_bits overflows in one burst
C4_Witness ==
    /\ mode = "B"
    /\ Len(OverflowsOf(burst)) >= Pow2(config.node_bits)


\* the suffixes of n consecutive completed calls, from the i-th on
SuffixesOf(i, n) == [j \in i .. (i + n - 1) |-> SuffixOf(rets[j])]

\* C5: single-threaded, from any c0 < 2^suffix_bits, the 2^suffix_bits
\* consecutive calls return pairwise distinct suffixes that cover all of
\* [0, 2^suffix_bits), and after them the counter is back at c0.
C5_TenantFullPeriod ==
    (c0 <= MASK /\ Len(rets) >= Pow2(SUFFIX_BITS)) =>
        /\ Injective(SuffixesOf(1, Pow2(SUFFIX_BITS)))
        /\ {SuffixOf(rets[j]) : j \in 1 .. Pow2(SUFFIX_BITS)} = 0 .. MASK
        /\ Len(rets) = Pow2(SUFFIX_BITS) => counter = c0

\* a full period completed by one thread from a non-zero start
C5_Witness ==
    /\ c0 > 0 /\ c0 <= MASK
    /\ Len(rets) = Pow2(SUFFIX_BITS)
    /\ \A c \in Callers : t_pc[c] = "idle"

\* C6: with several callers on one counter, under every interleaving of
\* their load and compare-exchange steps, no two of any 2^suffix_bits
\* consecutively completed calls return the same suffix (a call completes
\* when its exchange succeeds).
C6_TenantConcurrent ==
    \A i \in 1 .. Len(rets) : i + Pow2(SUFFIX_BITS) - 1 <= Len(rets) =>
        Injective(SuffixesOf(i, Pow2(SUFFIX_BITS)))

\* a full period completed while another caller held a stale counter value
\* through it: its next exchange fails
C6_Witness ==
    /\ Len(rets) >= Pow2(SUFFIX_BITS)
    /\ \E c \in Callers : t_pc[c] = "loop" /\ t_current[c].current # counter


\* C11: two unserialized generate_at calls of different threads that loaded
\* the same sequence value for the same tick (the current one) return the
\* same sequence value and the same id; the witness is an interleaving in
\* which that happens.
C11_CheckThenAct ==
    \A i, j \in 1 .. Len(r_rets) :
        (/\ i < j
         /\ r_rets[i].thread # r_rets[j].thread
         /\ r_rets[i].ts = r_rets[j].ts
         /\ r_rets[i].last = r_rets[i].ts /\ r_rets[j].last = r_rets[j].ts
         /\ r_rets[i].loaded = r_rets[j].loaded
         /\ r_rets[i].persona = r_rets[j].persona)
        => /\ r_rets[i].seq = r_rets[j].seq
           /\ r_rets[i].id = r_rets[j].id

\* the second call had started before the first returned, both loaded the
\* same sequence value for the same tick, and both returned the same id
C11_Witness ==
    \E i, j \in 1 .. Len(r_rets) :
        /\ i < j
        /\ r_rets[i].thread # r_rets[j].thread
        /\ r_rets[j].started < i
        /\ r_rets[i].ts = r_rets[j].ts
        /\ r_rets[i].last = r_rets[i].ts /\ r_rets[j].last = r_rets[j].ts
        /\ r_rets[i].loaded = r_rets[j].loaded
        /\ r_rets[i].id = r_rets[j].id


C13_IdenticalAtZero ==
    (mode = "A" /\ calls = 1 /\ out.kind = "id" /\ out.ts = 0) => twin.id = out.id

\* C13: two generators with equal persona, last tick, sequence, mode and
\* configuration, given the same ticks, return equal ids and reach equal
\* states as long as no random persona rotation was triggered, which is
\* always so in Modes B and C; in particular two Mode A generators built
\* alike agree on generate_at(0) when the starting sequence does not overflow.
C13_Deterministic ==
    /\ (calls > 0 /\ ~drawn) => (twin.gen = Gen /\ twin.id = out.id /\ twin.case = out.case)
    /\ mode \in {"B", "C"} => ~drawn

C13_Witness ==
    /\ calls >= 2 /\ ~drawn /\ mode = "B" /\ out.case \in {"overflow", "rollback"}
    /\ twin.gen = Gen /\ twin.id = out.id /\ persona.node_id # shard

\* C14: the first 2^(node_bits + seq_bits) ids returned by consecutive
\* generate_at(t) calls of one Mode B generator at a single fixed tick t are
\* pairwise distinct.
C14_BurstUnique ==
    \A a, b \in 1 .. Len(burst) :
        (a < b /\ b <= Pow2(config.node_bits + config.seq_bits))
            => burst[a].id # burst[b].id

\* C15: two ids assembled under the same Config, by any generators, personas
\* and modes, for ticks t1 < t2 < 2^time_bits: the first id is numerically
\* smaller than the second, whatever their node and sequence fields are.
C15_TimeSortable ==
    (pack.done /\ pack.t1 < pack.t2 /\ pack.t2 < Pow2(pack.a.config.time_bits))
        => pack.id1 < pack.id2

\* the earlier id carries the larger node field and the larger sequence field
C15_Witness ==
    /\ pack.done /\ pack.t1 < pack.t2 /\ pack.t2 < Pow2(pack.a.config.time_bits)
    /\ pack.a.mode # pack.b.mode /\ pack.a.persona # pack.b.persona
    /\ NodeOf(pack.a.config, pack.id1) > NodeOf(pack.a.config, pack.id2)
    /\ SeqOf(pack.a.config, pack.id1) > SeqOf(pack.a.config, pack.id2)
    /\ pack.id1 < pack.id2

\* C16: every id equals ((tick mod 2^time_bits) << (node_bits + seq_bits))
\* | (node_field << seq_bits) | seq_field, with node_field < 2^node_bits and
\* seq_field < 2^seq_bits: the fields do not overlap (the id is their weighted
\* sum), decoding by shift and mask recovers the three fields, all-zero
\* fields give id 0 and all-maximal fields in the layout that fills the word
\* (33/16/15) give the largest word.
C16_FieldPacking ==
    pack.done =>
        LET cfg == pack.a.config
            tf == pack.t1 % Pow2(cfg.time_bits)
            nf == BitAnd(NodeField(pack.a), MaskOf(cfg.node_bits))
            sf == BitAnd(SeqField(pack.a, pack.s1), MaskOf(cfg.seq_bits))
        IN  /\ nf < Pow2(cfg.node_bits) /\ sf < Pow2(cfg.seq_bits)
            /\ nf = NodeField(pack.a) /\ sf = SeqField(pack.a, pack.s1)
            /\ pack.id1 = tf * Pow2(cfg.node_bits + cfg.seq_bits) + nf * Pow2(cfg.seq_bits) + sf
            /\ TimeOf(cfg, pack.id1) = tf
            /\ NodeOf(cfg, pack.id1) = nf
            /\ SeqOf(cfg, pack.id1) = sf
            /\ (tf = 0 /\ nf = 0 /\ sf = 0) => pack.id1 = 0
            /\ (cfg = Config_new("Second") /\ tf = MaskOf(cfg.time_bits)
                    /\ nf = MaskOf(cfg.node_bits) /\ sf = MaskOf(cfg.seq_bits))
                => pack.id1 = Pow2(WORD_BITS) - 1

\* all-maximal fields in the layout that fills the word, and a tick beyond
\* 2^time_bits in the same run
C16_Witness ==
    /\ pack.done /\ pack.a.config = Config_new("Second")
    /\ pack.id1 = Pow2(WORD_BITS) - 1
    /\ pack.t2 >= Pow2(pack.a.config.time_bits)
    /\ TimeOf(pack.a.config, pack.id2) = pack.t2 % Pow2(pack.a.config.time_bits)

\* C17 (as stated): rotate_params_only replaces only the salts and multiplier
\* indices of the persona (node_id and seq_offset stay) and leaves last_tick,
\* sequence, mode and config unchanged, in every mode.
C17_ParamsOnlyFrame ==
    [][RotateParamsOnly =>
          /\ persona'.node_id = persona.node_id
          /\ persona'.seq_offset = persona.seq_offset
          /\ UNCHANGED <<last_ts, sequence, mode, config>>]_vars

\* C17 (amended): rotate_params_only replaces only the salts, the multiplier
\* indices and seq_offset of the persona and never alters node_id; it leaves
\* last_tick, sequence, mode and config unchanged, in every mode.
C17_ParamsAndOffsetFrame ==
    [][RotateParamsOnly =>
          /\ persona'.node_id = persona.node_id
          /\ UNCHANGED <<last_ts, sequence, mode, config>>]_vars

\* after rotate_params_only the persona is one that no constructor gives,
\* and node_id is still the node id the generator was built with
C17_Witness ==
    /\ rotated = "params" /\ out = NoOut
    /\ persona.node_id = shard
    /\ \A p \in Persona_new_random : persona # [p EXCEPT !.node_id = shard]

\* C18: an id generated after a manual rotation (rotate_params_only in
\* Mode C, rotate_persona in Mode A) differs from every id the generator
\* returned before the rotation, the ids of the same tick and the id
\* immediately before the rotation included.  (fresh holds the ids returned
\* since the last overflow or rollback handler, so a repeat counted here is
\* not one of those handlers' making.)
C18_RotationUnique ==
    (rotated # "none" /\ out.kind = "id") => ~fresh_dup

\* C19: generate_at in every mode (Mode C on overflow and rollback included)
\* and generate() in Modes A and B always return an id without waiting on
\* the wall clock; the only operation that can suspend its caller is
\* generate() on a Mode C generator.
C19_OnlyModeCBlocks ==
    /\ pc # "idle" => mode = "C"
    /\ out.op = "generate_at" => (pc = "idle" /\ out.kind = "id" /\ out.ovf = NoTick)
    /\ (out.op = "generate" /\ mode # "C")
           => (pc = "idle" /\ out.kind = "id" /\ out.ovf = NoTick)
    /\ (out.kind = "id" /\ out.ovf # NoTick) => (mode = "C" /\ out.op = "generate")

\* a Mode C generate_at call that overflowed or rolled back has returned its
\* id with no caller left waiting
C19_Witness ==
    /\ mode = "C" /\ out.op = "generate_at" /\ out.kind = "id"
    /\ out.case \in {"overflow", "rollback"}
    /\ pc = "idle" /\ wait_ts = NoTick

\* C20: under a wall clock that never moves backwards and keeps advancing,
\* every call of generate() on a Mode C generator eventually returns an id;
\* a call that entered the spin-wait leaves it, and returns, only once the
\* clock's tick has passed the tick it waited on (there is no timeout and no
\* cancellation: while the clock does not advance the call stays in the spin;
\* the wait for a last_tick that generate_at put ahead of the clock ends when
\* the clock reaches it).
C20_ModeCLiveness ==
    /\ (pc # "idle") ~> (pc = "idle" /\ out.kind = "id")
    /\ []((out.kind = "id" /\ out.ovf # NoTick)
              => (TsUnits(config, clock) > out.ovf /\ out.ts > out.ovf))
    /\ [][(pc = "spin_overflow" /\ pc' # "spin_overflow")
              => (pc' = "retry" /\ TsUnits(config, clock) > wait_ts)]_vars
    /\ [][(pc = "spin_rollback" /\ pc' # "spin_rollback")
              => (pc' = "retry" /\ TsUnits(config, clock) >= wait_ts)]_vars
    /\ [][(pc # "idle" /\ pc' = "idle") => (pc = "retry" /\ out'.kind = "id")]_vars

\* a call that exhausted the sequence of its tick and waited has returned an
\* id of a later tick
C20_Witness ==
    /\ mode = "C" /\ pc = "idle" /\ out.kind = "id" /\ out.op = "generate"
    /\ out.ovf # NoTick /\ out.ts > out.ovf
    /\ TsUnits(config, clock) > out.ovf

\* C21: Generator::mix returns the same value as the SQL-snippet logic
\* uchrono_mix_sql_logic for every value, every bit width in 1..63 (scaled:
\* below the word width), every multiplier index and every salt.
C21_SqlParity ==
    mix_res # <<>> =>
        \A v \in DOMAIN mix_res :
            mix_res[v] = uchrono_mix_sql_logic(v, mix_args.bits, mix_args.p_idx,
                                               mix_args.salt)

\* C22: every Config of Config::new and every row of the variant table
\* audited by proof_bit_splits satisfies time_bits + node_bits + seq_bits <=
\* width, and <= width - 1 when the variant is signed-safe, and the audit
\* passes it: the maximal id of a signed variant has its top bit clear.
C22_BitBudget ==
    (pack.done /\ pack.fn = "check" /\ pack.arg \in Variants \cup ConfigRows) =>
        LET v == pack.arg
            total == v.bits_t + v.bits_n + v.bits_s
        IN  /\ total <= v.width
            /\ v.signed => total <= v.width - 1
            /\ v.signed => (v.width - 1) \notin MaxIdBits(v)
            /\ pack.res = <<"pass">>

\* a signed row that uses every bit but the top one has been audited
C22_Witness ==
    /\ pack.done /\ pack.fn = "check" /\ pack.arg \in Variants
    /\ pack.arg.signed /\ pack.arg.width = 64
    /\ pack.arg.bits_t + pack.arg.bits_n + pack.arg.bits_s = 63
    /\ (62 \in MaxIdBits(pack.arg)) /\ pack.res = <<"pass">>

\* C23: for every reading of the clock and every random draw,
\* generate_chrono32y returns (year << 23) | entropy with the year offset
\* masked to its 8 bits and the draw masked to 23 bits, a value below 2^31
\* (here: 3 bits of year, 2 of entropy, below 2^5).
C23_SignedSafe ==
    (pack.done /\ pack.fn = "chrono32y") =>
        LET id == pack.res[1]
        IN  /\ id < Pow2(U32_BITS - 1)
            /\ id \div Pow2(ENTROPY_BITS) = YearOffset(pack.arg[1]) % Pow2(Y32_BITS)
            /\ id % Pow2(ENTROPY_BITS) = pack.arg[2] % Pow2(ENTROPY_BITS)

\* an id of the last year of the mask with all entropy bits set, from a year
\* offset beyond the mask and a draw with its top bit set
C23_Witness ==
    /\ pack.done /\ pack.fn = "chrono32y"
    /\ YearOffset(pack.arg[1]) > MaskOf(Y32_BITS)
    /\ pack.arg[2] >= Pow2(U32_BITS - 1)
    /\ pack.res[1] = Pow2(U32_BITS - 1) - 1

\* C24: for every u32 x, 0 and the largest included, format_hyphenated_hex(x)
\* has the form XXXX-XXXX (here XX-XX: the digits of the width, a hyphen after
\* the first half, every other character an upper-case hex digit) and
\* decode_hyphenated_hex of it is x.
C24_HexRoundTrip ==
    (pack.done /\ pack.fn = "hex") =>
        LET enc == pack.res[1] IN
        /\ Len(enc) = HEX_DIGITS + 1
        /\ enc[HEX_HALF + 1] = HYPHEN
        /\ \A i \in (1 .. HEX_DIGITS + 1) \ {HEX_HALF + 1} :
              \/ enc[i] \in CHAR_0 .. CHAR_0 + 9
              \/ enc[i] \in CHAR_A .. CHAR_A + 5
        /\ pack.res[2] = <<pack.arg[1]>>

\* the largest u32 has gone through the round trip: FF-FF here
C24_Witness ==
    /\ pack.done /\ pack.fn = "hex" /\ pack.arg[1] = 16 ^ HEX_DIGITS - 1
    /\ pack.res[1] = <<CHAR_A + 5, CHAR_A + 5, HYPHEN, CHAR_A + 5, CHAR_A + 5>>
    /\ pack.res[2] = <<pack.arg[1]>>

\* C25: for all u32 x < y, format_hyphenated_hex(x) is below
\* format_hyphenated_hex(y) in the order of strings.
C25_OrderPreserving ==
    (pack.done /\ pack.fn = "hexpair" /\ pack.arg[1] < pack.arg[2]) =>
        StrLess(pack.res[1], pack.res[2])

\* a pair that differs in a digit against a letter, a shorter number against a
\* longer one: 0x009F < 0x00A0
C25_Witness ==
    /\ pack.done /\ pack.fn = "hexpair"
    /\ pack.arg = <<159, 160>>
    /\ StrLess(pack.res[1], pack.res[2])

\* C26: building a Config whose time_bits + node_bits + seq_bits exceeds the
\* integer width, or the width less one for a signed-safe variant, fails with
\* a configuration error reported to the caller.
C26_InvalidConfigRejected ==
    (pack.done /\ pack.fn = "config") =>
        LET total == pack.arg[1] + pack.arg[2] + pack.arg[3]
            budget == IF pack.arg[4] THEN WORD_BITS - 1 ELSE WORD_BITS
        IN  total > budget => pack.res[1] = "ConfigError"

\* the call that follows the rotation of both generators, at a tick later than
\* the last one
HealedCall ==
    /\ rotated = "persona" /\ out = NoOut
    /\ out'.kind = "id" /\ out'.case = "advance"

\* C27 as stated: after rotate_persona() on each of two Mode A generators that
\* held the same persona and returned the same ids, their ids for the same
\* later tick differ.
C27_AlwaysDiverge == [][HealedCall => out'.id # twin'.id]_vars

\* C27 amended: ... their ids for the same later tick differ exactly when the
\* personas the two rotations drew give a different node field or a different
\* sequence field, and are equal when both drew alike.
C27_DivergeByDraw ==
    [][HealedCall =>
         (out'.id = twin'.id <=>
             /\ NodeField(Gen') = NodeField(twin'.gen)
             /\ SeqField(Gen', 0) = SeqField(twin'.gen, 0))]_vars

\* both generators returned the same id, were rotated, and returned different
\* ids for the same later tick
C27_Witness ==
    /\ mode = "A" /\ calls = 2 /\ rotated = "persona"
    /\ out.kind = "id" /\ out.case = "advance" /\ twin.case = "advance"
    /\ persona # twin.gen.persona
    /\ out.id # twin.id

\* C28: generate_at(t) with t > last_tick stores last_tick := t and
\* sequence := 0 and runs no handler (the persona stays); with t = last_tick
\* it leaves last_tick, stores sequence := (sequence + 1) mod 2^seq_bits, runs
\* the mode's overflow handler exactly when the new sequence is 0, and
\* assembles the id from the tick, the new sequence and the persona the
\* handler left.  A generator fresh from a constructor has last_tick = 0, so
\* generate_at(0) is a same-tick call.
C28_TickTransition ==
    (pack.done /\ pack.fn = "generate_at" /\ pack.arg.t >= pack.arg.g.last_ts) =>
        LET g == pack.arg.g
            t == pack.arg.t
            r == pack.res
            seq1 == (g.sequence + 1) % Pow2(g.config.seq_bits)
            after == IF t > g.last_ts
                     THEN [g EXCEPT !.last_ts = t, !.sequence = 0]
                     ELSE [g EXCEPT !.sequence = seq1,
                                    !.persona = IF seq1 = 0 THEN Handler(g, pack.arg.rnd)
                                                ELSE g.persona]
        IN  /\ r.gen = after
            /\ r.id = assemble(after, t, after.sequence)
            /\ ~r.blocked
            /\ (g.last_ts = 0 /\ t = 0) => r.case \in {"same", "overflow"}

\* a same-tick call whose sequence wrapped to 0 and whose handler changed the
\* persona the id was assembled with
C28_Witness ==
    /\ pack.done /\ pack.fn = "generate_at"
    /\ pack.arg.t = pack.arg.g.last_ts
    /\ pack.arg.g.sequence = MaskOf(pack.arg.g.config.seq_bits)
    /\ pack.res.gen.sequence = 0
    /\ pack.res.gen.persona # pack.arg.g.persona
    /\ pack.res.id # assemble(pack.arg.g, pack.arg.t, 0)

\* C29: generate_at(t) with t < last_tick, and generate() of Modes A and B
\* reading a tick below last_tick, runs the mode's handler, stores
\* sequence := (sequence + 1) mod 2^seq_bits, returns an id whose time field is
\* the rolled-back tick, and leaves last_tick as it was.
C29_RollbackTransition ==
    LET g == pack.arg.g
        t == IF pack.fn = "generate" THEN TsUnits(g.config, pack.arg.t) ELSE pack.arg.t
    IN  (/\ pack.done /\ pack.fn \in {"generate_at", "generate"}
         /\ (pack.fn = "generate" => g.mode # "C")
         /\ t < g.last_ts) =>
            LET r == pack.res IN
            /\ r.gen.persona = Handler(g, pack.arg.rnd)
            /\ r.gen.sequence = (g.sequence + 1) % Pow2(g.config.seq_bits)
            /\ r.gen.last_ts = g.last_ts
            /\ r.gen.mode = g.mode /\ r.gen.config = g.config
            /\ TimeOf(g.config, r.id) = t % Pow2(g.config.time_bits)
            /\ TimeOf(g.config, r.id) # g.last_ts
            /\ ~r.blocked

\* generate() of a Mode B generator read a tick below last_tick: the Weyl
\* step was taken and the id carries the lower tick
C29_Witness ==
    /\ pack.done /\ pack.fn = "generate" /\ pack.arg.g.mode = "B"
    /\ TsUnits(pack.arg.g.config, pack.arg.t) < pack.arg.g.last_ts
    /\ pack.res.gen.persona.node_id # pack.arg.g.persona.node_id
    /\ pack.res.gen.last_ts = pack.arg.g.last_ts
    /\ TimeOf(pack.arg.g.config, pack.res.id) = TsUnits(pack.arg.g.config, pack.arg.t)

\* a call of generate() that found the clock's tick below last_tick is about
\* to retry, and the retry returns an id
RollbackRetryReturns ==
    /\ pc = "retry" /\ waited = NoTick
    /\ out'.kind = "id"

\* C30 as stated: generate() on a Mode C generator that reads a tick below
\* last_tick blocks until the clock's tick is strictly past last_tick before
\* it retries, as on overflow, so the id it returns has a tick greater than
\* the last_tick seen at entry.
C30_StrictlyPast ==
    /\ [][(pc = "spin_rollback" /\ pc' # "spin_rollback")
              => (pc' = "retry" /\ TsUnits(config, clock) > wait_ts)]_vars
    /\ [][RollbackRetryReturns => out'.ts > last_ts]_vars

\* C30 amended: ... blocks until the clock's tick has reached last_tick
\* (overflow waits for a tick strictly past it) before it retries, storing
\* nothing while it waits, so the id it returns has a tick greater than or
\* equal to the last_tick seen at entry.
C30_CaughtUp ==
    /\ [][(pc = "spin_rollback" /\ pc' # "spin_rollback")
              => (pc' = "retry" /\ TsUnits(config, clock) >= wait_ts)]_vars
    /\ [][(pc = "spin_rollback" /\ TsUnits(config, clock) < wait_ts)
              => pc' = "spin_rollback"]_vars
    /\ [](pc = "spin_rollback" => wait_ts = last_ts)
    /\ [][pc = "spin_rollback" => UNCHANGED <<persona, last_ts, sequence>>]_vars
    /\ [][RollbackRetryReturns => out'.ts >= last_ts]_vars
    /\ (pc = "spin_rollback") ~> (pc = "idle" /\ out.kind = "id")

\* the wait of a rolled-back call has ended with the clock's tick exactly at
\* last_tick, and the call is about to retry
C30_Witness ==
    /\ mode = "C" /\ pc = "retry" /\ waited = NoTick
    /\ wait_ts = last_ts /\ TsUnits(config, clock) = last_ts

\* the tick a call of the harness works with
StepTick ==
    IF pack.fn = "generate" THEN TsUnits(pack.arg.g.config, pack.arg.t) ELSE pack.arg.t

\* the call is one that runs the handler: a tick below last_tick, or the
\* sequence of last_tick wrapping to 0
StepHandlerCase ==
    LET g == pack.arg.g IN
    \/ StepTick < g.last_ts
    \/ (StepTick = g.last_ts /\ (g.sequence + 1) % Pow2(g.config.seq_bits) = 0)

\* C31: generate and generate_at leave the persona alone outside the
\* overflow / rollback handler; in the handler Mode A replaces the whole
\* persona by the one drawn, Mode B changes node_id alone and its result does
\* not depend on any draw, Mode C changes nothing.
C31_PersonaFrame ==
    (pack.done /\ pack.fn \in {"generate_at", "generate"}) =>
        LET g == pack.arg.g
            p1 == pack.res.gen.persona
        IN  /\ ~StepHandlerCase => p1 = g.persona
            /\ (StepHandlerCase /\ g.mode = "A") => p1 = pack.arg.rnd
            /\ (StepHandlerCase /\ g.mode = "B") =>
                  /\ [p1 EXCEPT !.node_id = g.persona.node_id] = g.persona
                  /\ \A rnd \in Persona_new_random :
                        pack.res = IF pack.fn = "generate"
                                   THEN generate(g, pack.arg.t, rnd)
                                   ELSE generate_at(g, pack.arg.t, rnd)
            /\ g.mode = "C" => p1 = g.persona

\* a Mode B call on a rolled-back tick changed node_id and nothing else while
\* the persona a rotation would have drawn was a different one
C31_Witness ==
    /\ pack.done /\ pack.fn = "generate_at" /\ pack.arg.g.mode = "B"
    /\ pack.arg.t < pack.arg.g.last_ts
    /\ pack.res.gen.persona.node_id # pack.arg.g.persona.node_id
    /\ pack.arg.rnd # pack.res.gen.persona
    /\ [pack.res.gen.persona EXCEPT !.node_id = pack.arg.g.persona.node_id]
           = pack.arg.g.persona

\* C32: after every generate or generate_at call the stored sequence lies in
\* [0, 2^seq_bits), whatever starting sequence new_with_persona was given.
C32_SequenceRange ==
    (pack.done /\ pack.fn \in {"generate_at", "generate"}) =>
        pack.res.gen.sequence \in 0 .. (Pow2(pack.arg.g.config.seq_bits) - 1)

\* the first call on a generator built with a starting sequence beyond the
\* field has stored a sequence inside it
C32_Witness ==
    /\ pack.done /\ pack.fn = "generate_at"
    /\ pack.arg.g.last_ts = 0
    /\ pack.arg.g.sequence >= Pow2(pack.arg.g.config.seq_bits)
    /\ pack.arg.t = 0
    /\ pack.res.gen.sequence = (pack.arg.g.sequence + 1) % Pow2(pack.arg.g.config.seq_bits)

\* C33: in every state of a generator persona.node_id <= 2^node_bits - 1 for
\* the generator's own Config: right after new_mode_c / new_mode_c_us with
\* the caller's shard id, after Mode B's Weyl steps, after rotate_persona on
\* a generator with the microsecond layout.
C33_NodeIdBound == persona.node_id <= Pow2(config.node_bits) - 1

\* C34: the ticks of the ids generate() returns on one Mode C generator never
\* decrease, whatever the wall clock reads: last_tick never goes down, every
\* id returned carries the last_tick of the moment (none a tick below it), and
\* a reading below last_tick makes the call wait and retry.
C34_ModeCMonotone ==
    /\ [][last_ts' >= last_ts]_vars
    /\ [](out.kind = "id" => (out.ts = last_ts /\ TimeOf(config, out.id) = out.ts))
    /\ [][(out.kind = "id" /\ out'.kind = "id") => out'.ts >= out.ts]_vars
    /\ [][(pc \in {"idle", "retry"} /\ pc' = "spin_rollback")
              => (out' = NoOut /\ UNCHANGED <<last_ts, sequence, persona>>)]_vars

\* a call that read the clock below last_tick is waiting, no id returned
C34_Witness ==
    /\ mode = "C" /\ pc = "spin_rollback"
    /\ last_ts > 0 /\ wait_ts = last_ts
    /\ out = NoOut /\ issued # {}

\* the largest of a non-empty set of numbers
MaxOf(S) == CHOOSE x \in S : \A y \in S : y <= x

\* C35: after any sequence of generate_at calls, in any mode and with any
\* rotations in between, last_tick is the largest of 0 and the ticks
\* requested so far; a request below it does not lower it.
C35_LastTickIsMax ==
    last_ts = MaxOf({0} \cup {burst[j].ts : j \in 1 .. Len(burst)})

\* a tick was requested below last_tick, after a rotation, and last_tick is
\* still the largest tick requested
C35_Witness ==
    /\ Len(burst) >= 3 /\ rotated # "none"
    /\ burst[Len(burst)].ts < last_ts
    /\ burst[Len(burst)].case = "rollback"
    /\ \E j \in 1 .. Len(burst) : burst[j].ts = last_ts

\* the m-th logged call asked for a tick below the largest tick asked before it
RolledBack(m) ==
    m > 1 /\ burst[m].ts < MaxOf({0} \cup {burst[j].ts : j \in 1 .. (m - 1)})

\* C36: as long as the ticks requested stay below last_tick every generate_at
\* call runs the mode's handler and steps the sequence: Mode A holds a newly
\* drawn persona after each such call, and in Mode B the k-th such call in a
\* row leaves node_id + k * step mod 2^node_bits and sequence + k mod
\* 2^seq_bits, with step = (magic mod 2^node_bits) | 1.
C36_HandlerEveryRollback ==
    /\ [][(Len(burst') > Len(burst) /\ burst'[Len(burst')].ts < last_ts) =>
            /\ sequence' = (sequence + 1) % Pow2(config.seq_bits)
            /\ last_ts' = last_ts
            /\ mode = "A" => persona' \in Persona_new_random
            /\ mode = "C" => persona' = persona]_vars
    /\ [](  (mode = "B" /\ rotated = "none") =>
            \A i, j \in 1 .. Len(burst) :
                (i < j /\ \A m \in (i + 1) .. j : RolledBack(m)) =>
                    LET step == BitOr(WEYL_MAGIC % Pow2(config.node_bits), 1)
                    IN  /\ burst[j].node
                             = (burst[i].node + (j - i) * step) % Pow2(config.node_bits)
                        /\ burst[j].seq
                             = (burst[i].seq + (j - i)) % Pow2(config.seq_bits))

\* a Mode B generator has answered two rolled-back requests in a row, each
\* with another node_id
C36_Witness ==
    /\ mode = "B" /\ rotated = "none" /\ Len(burst) >= 3
    /\ RolledBack(Len(burst)) /\ RolledBack(Len(burst) - 1)
    /\ burst[Len(burst)].node # burst[Len(burst) - 1].node
    /\ burst[Len(burst) - 1].node # burst[Len(burst) - 2].node
    /\ burst[Len(burst)].node = persona.node_id

\* the persona is the same after each of the calls i .. j of the run
SamePersona(i, j) ==
    \A m \in i .. j : pack.res[m].gen.persona = pack.res[i].gen.persona

\* C37: in any mode, while the persona stays as it is, the ids one generator
\* returns for a single tick are pairwise distinct over up to 2^seq_bits
\* calls in a row: their sequences are 2^seq_bits successive values, which
\* the offset and the mixer map to distinct sequence fields.
C37_WithinTickUnique ==
    (pack.done /\ pack.fn = "run") =>
        \A i, j \in 1 .. Len(pack.res) :
            (i < j /\ j - i < Pow2(pack.arg.g.config.seq_bits) /\ SamePersona(i, j)) =>
                /\ pack.res[i].id # pack.res[j].id
                /\ SeqOf(pack.arg.g.config, pack.res[i].id)
                       # SeqOf(pack.arg.g.config, pack.res[j].id)
                /\ pack.res[j].gen.sequence
                       = (pack.res[i].gen.sequence + (j - i))
                             % Pow2(pack.arg.g.config.seq_bits)

\* 2^seq_bits calls in a row at one tick under one persona returned distinct
\* ids, and the call after them repeated the first
C37_Witness ==
    /\ pack.done /\ pack.fn = "run"
    /\ Pow2(pack.arg.g.config.seq_bits) = Pow2(SEQ_BITS)
    /\ SamePersona(1, RunLen)
    /\ \A i, j \in 1 .. Pow2(SEQ_BITS) : i < j => pack.res[i].id # pack.res[j].id
    /\ pack.res[1 + Pow2(SEQ_BITS)].id = pack.res[1].id

\* C38: a step of generate_chrono32y_mode_b that completes a call is one
\* successful exchange: it moves the counter by one STEP modulo
\* 2^suffix_bits and hands back, in the suffix of its id, the value the
\* counter held before it; every other step (a load, a failed exchange, the
\* clock) leaves the counter and the completed calls alone; so after k >= 1
\* completed calls, however the callers interleave, the counter is
\* (c0 + k * STEP) mod 2^suffix_bits, below 2^suffix_bits.
C38_OneWeylStep ==
    [][ /\ Len(rets') \in {Len(rets), Len(rets) + 1}
        /\ Len(rets') = Len(rets) + 1 =>
              /\ counter' = (counter + STEP) % Pow2(SUFFIX_BITS)
              /\ SuffixOf(rets'[Len(rets')]) = counter % Pow2(SUFFIX_BITS)
              /\ SubSeq(rets', 1, Len(rets)) = rets
        /\ Len(rets') = Len(rets) => (counter' = counter /\ rets' = rets)
        /\ Len(rets') >= 1 =>
              /\ counter' = (c0 + Len(rets') * STEP) % Pow2(SUFFIX_BITS)
              /\ counter' <= MASK
      ]_vars

\* calls completed from a counter that started at 2^suffix_bits or above,
\* while another caller holds a value the counter has left: its exchange
\* fails
C38_Witness ==
    /\ c0 > MASK
    /\ Len(rets) >= 2
    /\ counter = (c0 + Len(rets) * STEP) % Pow2(SUFFIX_BITS)
    /\ \E c \in Callers : t_pc[c] = "loop" /\ t_current[c].current # counter

\* caller c's exchange failed for good in this step: it stays in the loop
\* with another value of the counter
FailedExchange(c) ==
    /\ t_pc[c] = "loop" /\ t_pc'[c] = "loop"
    /\ t_current'[c].current # t_current[c].current

Pending == \E c \in Callers : t_pc[c] = "loop"

\* C39: in the retry loop of generate_chrono32y_mode_b an exchange fails for
\* good only when the counter no longer holds the value the caller read,
\* some other call having completed since; the failure hands the caller the
\* counter's present value and changes nothing else. So, the callers' threads
\* being scheduled fairly, whenever calls are pending one more call
\* completes, and every pending call returns.
C39_LockFree ==
    /\ [][ \A c \in Callers : FailedExchange(c) =>
              /\ counter # t_current[c].current
              /\ Len(rets) >= 1
              /\ t_current'[c].current = counter
              /\ counter' = counter /\ rets' = rets
         ]_vars
    /\ \A n \in 0 .. TenantCalls :
          (Pending /\ Len(rets) = n) ~> (Len(rets) > n)
    /\ \A c \in Callers : (t_pc[c] = "loop") ~> (t_pc[c] = "idle")

\* every caller is in the loop after a call has completed, one holding the
\* counter's value and one a value the counter has left
C39_Witness ==
    /\ Len(rets) >= 1
    /\ \A c \in Callers : t_pc[c] = "loop"
    /\ \E c \in Callers : t_current[c].current = counter
    /\ \E c \in Callers : t_current[c].current # counter

\* C40: the id a call of generate_chrono32y_mode_b returns has the year
\* offset the call read, modulo 2^year_bits, in its top year_bits bits and
\* the counter value the call claimed in its low suffix_bits bits, whatever
\* value the caller gave the counter at the start, at or above
\* 2^suffix_bits included.
C40_TenantLayout ==
    [][ \A c \in Callers :
           (t_pc[c] = "loop" /\ t_pc'[c] = "idle") =>
               LET id == rets'[Len(rets')]
               IN  /\ id \div Pow2(SUFFIX_BITS) = t_current[c].year
                   /\ id % Pow2(SUFFIX_BITS) = counter % Pow2(SUFFIX_BITS)
      ]_vars

=========================================================================
